---- MODULE Spec2Model ----
(***************************************************************************)
(* A model of the retrieval-augmented chat pipeline: the text cleaner, the *)
(* query rewriter, and the chat turn with attachment handling, retrieval,  *)
(* context injection and persistence of the generated messages.            *)
(*                                                                         *)
(* Texts are sequences of one-character tokens.  Besides ordinary          *)
(* characters the tokens "ZW" (a zero-width character, U+200B), "CTL" (an  *)
(* ASCII control character) and "DEC" (a character of the decorative       *)
(* class) stand for the character classes the cleaner treats specially.    *)
(* Similarities are hundredths (0.6 is 60).                                *)
(***************************************************************************)
EXTENDS Integers, Sequences, FiniteSets, TLC

VARIABLES
    \* ---- one chat turn (POST of the chat route) ----
    variant,            \* which handler serves the turn: "route" or "ctx"
    pc,                 \* position of the handler
    message,            \* requestBody.message (NoMessage when absent)
    isToolApprovalFlow, \* Boolean(requestBody.messages)
    userId,             \* session.user.id (NoUser when absent)
    uiMessages,         \* the in-memory message sequence
    fileIdx,            \* index of the next file part to process
    retrievalInput,     \* uiMessages as handed to the retrieval run
    retrievedDocuments, \* the retrieval run's retrievedDocuments
    highQualityDocs,    \* the documents that survived filtering
    caught,             \* the retrieval run entered its catch block
    embedCalls,         \* texts sent to generateEmbedding in this turn
    embedOk,            \* generateEmbedding returned a vector in this turn
    searchCalls,        \* arguments of searchSimilarDocuments in this turn
    searchOk,           \* searchSimilarDocuments returned in this turn
    searchResults,      \* the rows it returned
    rewriteCalls,       \* calls of rewriteQuery issued by the retrieval run
    handed,             \* the sequence handed to generation
    dbMessages,         \* the persisted Message table of the chat
    dbAtStart,          \* the persisted messages when the turn started
    nextId,             \* source of fresh message ids (generateUUID)
    \* ---- the store the turn reads ----
    embeddingRows,      \* the DocumentEmbedding rows
    \* ---- one call of rewriteQuery ----
    rwPc,               \* position of the call
    rwArgs,             \* its arguments and environment
    rwOutcome,          \* how the upstream call ended (NoResult before)
    rwRecentHistory,    \* the history entries placed in the prompt
    rwResult,           \* the returned value (NoResult before it returns)
    rwThrew,            \* an exception left rewriteQuery
    \* ---- indexing runs (indexDocument) ----
    ixStore,            \* the DocumentEmbedding rows the runs write
    ixProc,             \* per request: position and locals of its run
    ixRuns,             \* number of runs started so far
    ixLast,             \* per document: the last completed run
    \* ---- one call of extractTextFromFile ----
    exPc,               \* position of the call
    exArgs,             \* mimeType and the extension of fileName
    exTemp,             \* the temporary file exists
    exWritten,          \* writeFile has put the temporary file on disk
    exUnlink,           \* how the unlink of the finally block ended
    exBody,             \* how the try block ended
    exResult,           \* what the call returned or threw
    \* ---- one upload request (POST /api/documents/upload) ----
    upPc,               \* position of the handler
    upFile,             \* the uploaded file as the handler sees it
    upText,             \* the extracted text
    upBlob,             \* the file has been put to blob storage
    upDoc,              \* the Document row is saved
    upRowsTouched,      \* an embedding row delete or insert has been issued
    upCleaned,          \* the cleaned chunks to embed
    upFailed,           \* the indexing step that threw, or "none"
    upResponse,         \* the response of the request
    \* ---- one call of generateEmbeddings ----
    emPc,               \* position of the call
    emTexts,            \* the texts argument
    emI,                \* the loop variable i
    emCalls,            \* the upstream calls made so far, with their outcome
    emAll,              \* allEmbeddings
    emResult,           \* what the call returned or threw
    \* ---- the cache client (getRedisClient) ----
    rcClient,           \* redisClient: "null", or the state of the client
    rcCreations,        \* how many times createClient has been called
    rcCalls,            \* per caller: position in getRedisClient
    rcBadConnect,       \* connect was called on an open or connecting client
    \* ---- cleaning a text and cleaning the result again ----
    clPc,               \* how many times the text has been cleaned
    clText,             \* the text
    clOnce,             \* cleanTextForEmbedding(text)
    clTwice,            \* cleanTextForEmbedding of that
    \* ---- one call of chunkText, piece by piece ----
    ckText,             \* the text argument
    ckPieces,           \* textChunks, what the splitter returned
    ckNext,             \* position in textChunks of the next piece
    ckCurrentIndex,     \* currentIndex
    ckChunks,           \* chunks
    \* ---- deduplication of a chunk list ----
    ddPc,               \* "given" or "done"
    ddChunks,           \* chunks
    ddUnique,           \* uniqueChunks
    \* ---- concurrent calls of extractTextFromFile and the temp directory ----
    txNow,              \* Date.now()
    txFiles,            \* per temporary path: the call whose bytes it holds
    txProc,             \* per call: position and tempFilePath
    txInterfered,       \* a call overwrote, read or deleted another's file
    \* ---- the custom streaming chat handler (files/newUpload) ----
    stPc,               \* position of the stream's start callback
    stEvents,           \* number of events taken from result.fullStream
    stCurrentText,      \* currentText
    stReasoningText,    \* reasoningText
    stReasoningActive,  \* isReasoningActive
    stHasId,            \* currentMessageId is set
    stMessage,          \* the message in finishedMessages, if any
    stReceived,         \* all text deltas received, one after another
    stSent,             \* the final, non-transient message enqueued
    stSaved,            \* the message saved to the database
    stTitle,            \* titlePromise: "none", "pending" or "resolved"
    stClosed,           \* controller.close() has been called
    stLateEnqueue       \* controller.enqueue was called after close

chatVars == <<variant, pc, message, isToolApprovalFlow, userId, uiMessages,
              fileIdx, retrievalInput, retrievedDocuments, highQualityDocs,
              caught, embedCalls, embedOk, searchCalls, searchOk,
              searchResults, rewriteCalls, handed, dbMessages, dbAtStart, nextId>>
storeVars == <<embeddingRows>>
rwVars == <<rwPc, rwArgs, rwOutcome, rwRecentHistory, rwResult, rwThrew>>
ixVars == <<ixStore, ixProc, ixRuns, ixLast>>
exVars == <<exPc, exArgs, exTemp, exWritten, exUnlink, exBody, exResult>>
upVars == <<upPc, upFile, upText, upBlob, upDoc, upRowsTouched, upCleaned,
           upFailed, upResponse>>
emVars == <<emPc, emTexts, emI, emCalls, emAll, emResult>>
rcVars == <<rcClient, rcCreations, rcCalls, rcBadConnect>>
clVars == <<clPc, clText, clOnce, clTwice>>
ckVars == <<ckText, ckPieces, ckNext, ckCurrentIndex, ckChunks>>
ddVars == <<ddPc, ddChunks, ddUnique>>
txVars == <<txNow, txFiles, txProc, txInterfered>>
stVars == <<stPc, stEvents, stCurrentText, stReasoningText,
            stReasoningActive, stHasId, stMessage, stReceived, stSent, stSaved, stTitle, stClosed,
            stLateEnqueue>>
restVars == <<ixVars, exVars, upVars, emVars, rcVars, clVars, ckVars, ddVars,
              txVars, stVars>>
ixOthers == <<chatVars, storeVars, rwVars, exVars, upVars, emVars, rcVars,
              clVars, ckVars, ddVars, txVars, stVars>>
exOthers == <<chatVars, storeVars, rwVars, ixVars, upVars, emVars, rcVars,
              clVars, ckVars, ddVars, txVars, stVars>>
upOthers == <<chatVars, storeVars, rwVars, ixVars, emVars, rcVars, clVars,
              ckVars, ddVars, txVars, stVars>>
emOthers == <<chatVars, storeVars, rwVars, ixVars, exVars, upVars, rcVars,
              clVars, ckVars, ddVars, txVars, stVars>>
rcOthers == <<chatVars, storeVars, rwVars, ixVars, exVars, upVars, emVars,
              clVars, ckVars, ddVars, txVars, stVars>>
clOthers == <<chatVars, storeVars, rwVars, ixVars, exVars, upVars, emVars,
              rcVars, ckVars, ddVars, txVars, stVars>>
ckOthers == <<chatVars, storeVars, rwVars, ixVars, exVars, upVars, emVars,
              rcVars, clVars, ddVars, txVars, stVars>>
ddOthers == <<chatVars, storeVars, rwVars, ixVars, exVars, upVars, emVars,
              rcVars, clVars, ckVars, txVars, stVars>>
txOthers == <<chatVars, storeVars, rwVars, ixVars, exVars, upVars, emVars,
              rcVars, clVars, ckVars, ddVars, stVars>>
stOthers == <<chatVars, storeVars, rwVars, ixVars, exVars, upVars, emVars,
              rcVars, clVars, ckVars, ddVars, txVars>>
vars == <<chatVars, storeVars, rwVars, restVars>>

NoMessage == [absent |-> TRUE]
NoUser == "none"
NoResult == [none |-> TRUE]

(***************************************************************************)
(* Strings                                                                 *)
(***************************************************************************)
Blank == {" ", "\t"}
Whitespace == {" ", "\t", "\n"}

RECURSIVE RunLen(_, _, _)
\* length of the maximal run of characters of cls that starts at s[i]
RunLen(s, i, cls) ==
    IF i > Len(s) \/ s[i] \notin cls THEN 0 ELSE 1 + RunLen(s, i + 1, cls)

RECURSIVE Segments(_, _, _)
\* s from position i cut into maximal runs of cls and single other characters
Segments(s, i, cls) ==
    IF i > Len(s) THEN <<>>
    ELSE LET n == RunLen(s, i, cls)
         IN IF n = 0 THEN <<SubSeq(s, i, i)>> \o Segments(s, i + 1, cls)
            ELSE <<SubSeq(s, i, i + n - 1)>> \o Segments(s, i + n, cls)

RECURSIVE Concat(_)
Concat(ss) == IF ss = <<>> THEN <<>> ELSE Head(ss) \o Concat(Tail(ss))

\* s.replace(/[cls]{min,}/g, repl)
ReplaceRuns(s, cls, min, repl) ==
    LET segs == Segments(s, 1, cls)
    IN Concat([k \in 1..Len(segs) |->
                  IF segs[k][1] \in cls /\ Len(segs[k]) >= min
                  THEN repl ELSE segs[k]])

\* s.replace(/[cls]{min,}/g, (match) => match.slice(0, keep))
TruncateRuns(s, cls, min, keep) ==
    LET segs == Segments(s, 1, cls)
    IN Concat([k \in 1..Len(segs) |->
                  IF segs[k][1] \in cls /\ Len(segs[k]) >= min
                  THEN SubSeq(segs[k], 1, keep) ELSE segs[k]])

\* s.replace(/[cls]/g, "")
RemoveClass(s, cls) == SelectSeq(s, LAMBDA c: c \notin cls)

RECURSIVE TrimStart(_)
TrimStart(s) ==
    IF s # <<>> /\ Head(s) \in Whitespace THEN TrimStart(Tail(s)) ELSE s

RECURSIVE TrimEnd(_)
TrimEnd(s) ==
    IF s # <<>> /\ s[Len(s)] \in Whitespace
    THEN TrimEnd(SubSeq(s, 1, Len(s) - 1)) ELSE s

\* String.prototype.trim
Trim(s) == TrimEnd(TrimStart(s))

RECURSIVE SplitLines(_, _)
\* s.split("\n"), from position i
SplitLines(s, i) ==
    LET n == RunLen(s, i, UNION {{s[k]} : k \in 1..Len(s)} \ {"\n"})
    IN IF i + n > Len(s) THEN <<SubSeq(s, i, i + n - 1)>>
       ELSE <<SubSeq(s, i, i + n - 1)>> \o SplitLines(s, i + n + 1)

RECURSIVE JoinLines(_)
\* lines.join("\n")
JoinLines(ls) ==
    IF Len(ls) = 0 THEN <<>>
    ELSE IF Len(ls) = 1 THEN ls[1]
    ELSE ls[1] \o <<"\n">> \o JoinLines(Tail(ls))

\* step 9: trim every line
TrimLines(s) ==
    LET ls == SplitLines(s, 1)
    IN JoinLines([k \in 1..Len(ls) |-> Trim(ls[k])])

RECURSIVE CollapseBlankLines(_, _)
\* step 10: s.replace(/\n\s*\n\s*\n/g, "\n\n"), from position i.  A match
\* starts at a newline whose whitespace run holds at least three newlines and
\* ends at the last newline of that run.
CollapseBlankLines(s, i) ==
    IF i > Len(s) THEN <<>>
    ELSE IF s[i] # "\n" THEN <<s[i]>> \o CollapseBlankLines(s, i + 1)
    ELSE LET w == RunLen(s, i, Whitespace)
             nls == {k \in i..(i + w - 1) : s[k] = "\n"}
             last == CHOOSE k \in nls : \A j \in nls : j <= k
         IN IF Cardinality(nls) >= 3
            THEN <<"\n", "\n">> \o CollapseBlankLines(s, last + 1)
            ELSE <<s[i]>> \o CollapseBlankLines(s, i + 1)

cleanTextForEmbedding(text) ==
    IF text = <<>> THEN <<>>
    ELSE LET s1 == ReplaceRuns(text, Blank, 1, <<" ">>)
             s2 == ReplaceRuns(s1, {"\n"}, 3, <<"\n", "\n">>)
             s3 == ReplaceRuns(s2, Blank, 1, <<" ">>)
             s4 == RemoveClass(s3, {"CTL"})
             s5 == RemoveClass(s4, {"ZW"})
             s6 == ReplaceRuns(s5, {"."}, 4, <<".", ".", ".">>)
             s7 == ReplaceRuns(s6, {"-"}, 3, <<"-", "-">>)
             s8 == ReplaceRuns(s7, {"_"}, 3, <<"_", "_">>)
             s9 == RemoveClass(s8, {"DEC"})
             s10 == TrimLines(s9)
             s11 == CollapseBlankLines(s10, 1)
         IN Trim(s11)

cleanQueryText(text) ==
    IF text = <<>> THEN <<>>
    ELSE TruncateRuns(cleanTextForEmbedding(text), {"?", "!"}, 3, 2)

(***************************************************************************)
(* The query rewriter                                                      *)
(***************************************************************************)
MaxHistoryLen == 3          \* longest conversation history drawn
MaxHistoryMessagesArg == 2  \* largest maxHistoryMessages drawn
LengthFactor == 5           \* a rewrite longer than 5x the query is refused

HistoryEntries ==
    {[role |-> "user", text |-> <<"a">>],
     [role |-> "assistant", text |-> <<"b">>],
     [role |-> "system", text |-> <<"a">>],
     [role |-> "user", text |-> <<" ">>],
     [role |-> "assistant", text |-> <<>>]}
Histories == UNION {[1..n -> HistoryEntries] : n \in 0..MaxHistoryLen}

RwQueries == {<<>>, <<"a">>, <<"a", "b">>}
ReplyTexts == {<<>>, <<" ", "\n">>, <<" ", "a", " ">>,
               <<"a", "b", "c", "d", "e">>,
               <<"a", "b", "c", "d", "e", "f">>,
               <<"a", "b", "c", "d", "e", "a", "b", "c", "d", "e">>,
               <<"a", "b", "c", "d", "e", "a", "b", "c", "d", "e", "f">>}

\* what the chat-completion endpoint can answer
RwOutcomes ==
    [kind : {"network_error", "http_error", "bad_json", "no_choices",
             "no_message", "no_content"}, text : {<<>>}]
    \cup [kind : {"content"}, text : ReplyTexts]

\* Array.prototype.slice(start): a negative start counts from the end, and
\* -0 is 0
JsSliceFrom(seq, start) ==
    LET from == IF start < 0
                THEN (IF Len(seq) + start < 0 THEN 0 ELSE Len(seq) + start)
                ELSE (IF start > Len(seq) THEN Len(seq) ELSE start)
    IN SubSeq(seq, from + 1, Len(seq))

\* the history entries placed in the prompt
RecentHistory(conversationHistory, maxHistoryMessages) ==
    LET sliced == JsSliceFrom(conversationHistory, -(maxHistoryMessages * 2))
        roles == SelectSeq(sliced,
                           LAMBDA msg: msg.role \in {"user", "assistant"})
    IN SelectSeq(roles, LAMBDA msg: Len(Trim(msg.text)) > 0)

\* the statement of rewriteQuery at which an upstream outcome raises
ThrowSite(o) ==
    CASE o.kind = "network_error" -> "fetch"
      [] o.kind = "http_error" -> "status"
      [] o.kind = "bad_json" -> "json"
      [] o.kind = "no_choices" -> "choices"
      [] o.kind \in {"no_message", "no_content"} -> "content"
      [] OTHER -> "none"

\* error.message of the exception raised for an upstream outcome
ErrorText(o) ==
    CASE o.kind = "network_error" -> "fetch failed"
      [] o.kind = "http_error" -> "ZhipuAI API error"
      [] o.kind = "bad_json" -> "Unexpected token"
      [] o.kind = "no_choices" -> "Invalid response from ZhipuAI API"
      [] OTHER -> "Cannot read properties of undefined"

InTryNarrow(site) == site \in {"fetch", "status", "json", "choices"}

\* the statements inside the try block of rewriteQuery
InTry(site) == site \in {"fetch", "status", "json", "choices", "content"}

RwFail(q, err) ==
    [originalQuery |-> q, rewrittenQuery |-> q, success |-> FALSE,
     error |-> err]

RwValidateStrict(q, content) ==
    LET rewrittenQuery == Trim(content)
    IN IF Len(rewrittenQuery) = 0 THEN RwFail(q, "Empty rewritten query")
       ELSE IF Len(rewrittenQuery) >= Len(q) * LengthFactor
            THEN RwFail(q, "Rewritten query too long")
            ELSE [originalQuery |-> q, rewrittenQuery |-> rewrittenQuery,
                  success |-> TRUE, error |-> ""]

\* the validation of a received reply
RwValidate(q, content) ==
    LET rewrittenQuery == Trim(content)
    IN IF Len(rewrittenQuery) = 0 THEN RwFail(q, "Empty rewritten query")
       ELSE IF Len(rewrittenQuery) > Len(q) * LengthFactor
            THEN RwFail(q, "Rewritten query too long")
            ELSE [originalQuery |-> q, rewrittenQuery |-> rewrittenQuery,
                  success |-> TRUE, error |-> ""]

\* rewriteQuery is called; without an API key it returns at once
RwCall(q, h, m, key) ==
    /\ rwPc = "idle"
    /\ rwArgs' = [currentQuery |-> q, conversationHistory |-> h,
                  maxHistoryMessages |-> m, apiKey |-> key]
    /\ rwThrew' = FALSE
    /\ rwOutcome' = NoResult
    /\ IF ~key
       THEN /\ rwResult' = RwFail(q, "ZHIPUAI_API_KEY not configured")
            /\ rwRecentHistory' = <<>>
            /\ rwPc' = "done"
       ELSE /\ rwRecentHistory' = RecentHistory(h, m)
            /\ rwResult' = NoResult
            /\ rwPc' = "fetching"
    /\ UNCHANGED <<chatVars, storeVars, restVars>>

\* the upstream call ends with outcome o and rewriteQuery finishes
RwReply(o) ==
    /\ rwPc = "fetching"
    /\ LET site == ThrowSite(o)
           q == rwArgs.currentQuery
       IN IF site # "none"
          THEN IF InTry(site)
               THEN rwResult' = RwFail(q, ErrorText(o)) /\ rwThrew' = FALSE
               ELSE rwResult' = NoResult /\ rwThrew' = TRUE
          ELSE rwResult' = RwValidate(q, o.text) /\ rwThrew' = FALSE
    /\ rwOutcome' = o
    /\ rwPc' = "done"
    /\ UNCHANGED <<rwArgs, rwRecentHistory, chatVars, storeVars, restVars>>

NoArgs == [currentQuery |-> <<>>, conversationHistory |-> <<>>,
           maxHistoryMessages |-> 0, apiKey |-> FALSE]

\* the caller has taken the result and the call's frame is gone; the next
\* call may start
RwReturn ==
    /\ rwPc = "done"
    /\ rwPc' = "idle"
    /\ rwArgs' = NoArgs
    /\ rwOutcome' = NoResult
    /\ rwRecentHistory' = <<>>
    /\ rwResult' = NoResult
    /\ rwThrew' = FALSE
    /\ UNCHANGED <<chatVars, storeVars, restVars>>

RwInit ==
    /\ rwPc = "idle"
    /\ rwArgs = NoArgs
    /\ rwOutcome = NoResult
    /\ rwRecentHistory = <<>>
    /\ rwResult = NoResult
    /\ rwThrew = FALSE

RwNext ==
    \/ /\ rwPc = "idle"
       /\ \E q \in RwQueries, h \in Histories,
             m \in 0..MaxHistoryMessagesArg, key \in BOOLEAN :
             RwCall(q, h, m, key)
    \/ \E o \in RwOutcomes : RwReply(o)
    \/ RwReturn

(***************************************************************************)
(* Indexing a document (the indexDocument tool)                            *)
(***************************************************************************)
MaxRuns == 3                \* most indexing runs started

Requests == {"p1", "p2"}    \* the requests that may run at the same time
IndexedDocs == {"d1", "d2"}

\* the pieces splitter.splitText returns for a document's content
SplitOutputs ==
    {<<>>,
     <<<<"a">>, <<"a", " ">>, <<" ">>>>,
     <<<<"a">>, <<"b">>, <<"a", "ZW">>>>,
     <<<<"ZW">>>>}

RECURSIVE PickFrom(_, _, _)
\* the elements of seq whose index is in keep, from index k on
PickFrom(seq, keep, k) ==
    IF k > Len(seq) THEN <<>>
    ELSE (IF k \in keep THEN <<seq[k]>> ELSE <<>>) \o PickFrom(seq, keep, k + 1)

\* chunkText: the trimmed, non-empty pieces (their texts)
chunkText(textChunks) ==
    SelectSeq([k \in 1..Len(textChunks) |-> Trim(textChunks[k])],
              LAMBDA trimmedText: Len(trimmedText) > 0)

UniqueChunksExact(chunks) ==
    PickFrom(chunks,
             {k \in 1..Len(chunks) :
                 \A j \in 1..(k - 1) : chunks[j] # chunks[k]},
             1)

\* chunks.filter((chunk, index, self) => index === self.findIndex(...))
UniqueChunks(chunks) ==
    PickFrom(chunks,
             {k \in 1..Len(chunks) :
                 \A j \in 1..(k - 1) : Trim(chunks[j]) # Trim(chunks[k])},
             1)

\* uniqueChunks.map(clean).filter((chunk) => chunk.text.length > 0)
CleanedChunks(uniqueChunks) ==
    SelectSeq([k \in 1..Len(uniqueChunks) |->
                  cleanTextForEmbedding(uniqueChunks[k])],
              LAMBDA text: Len(text) > 0)

\* the vector the endpoint returns for a text
VectorOf(text) == <<"vector", text>>

\* data.data.map((item) => item.embedding) of a response to input
BatchEmbeddings(input) == [k \in 1..Len(input) |-> VectorOf(input[k])]

\* embeddings[index] where the list has no such element
NoVector == <<"undefined">>

\* what generateEmbeddings hands back for texts: one vector per text, or, when
\* a response carried fewer items than texts, a list that ends early
EmbeddingAnswers == {"vectors", "short", "throw"}
EmbeddingsFor(texts, answer) ==
    IF answer = "vectors" THEN BatchEmbeddings(texts)
    ELSE SubSeq(BatchEmbeddings(texts), 1, Len(texts) - 1)

\* array[index], undefined past the end
ElementAt(array, k) == IF k <= Len(array) THEN array[k] ELSE NoVector

NewRowsOneBased(documentId, cleanedChunks, embeddings, run) ==
    {[documentId |-> documentId, chunkIndex |-> k,
      content |-> cleanedChunks[k],
      embedding |-> ElementAt(embeddings, k), run |-> run] :
        k \in 1..Len(cleanedChunks)}

\* the rows handed to saveDocumentEmbeddings; run stands for the rows' ids
NewRows(documentId, cleanedChunks, embeddings, run) ==
    {[documentId |-> documentId, chunkIndex |-> k - 1,
      content |-> cleanedChunks[k],
      embedding |-> ElementAt(embeddings, k), run |-> run] :
        k \in 1..Len(cleanedChunks)}

\* "embedding" vector NOT NULL: an insert with a row without a vector fails
Insertable(rows) == \A r \in rows : r.embedding # NoVector

DeleteTargetNone(documentId) == "none"

\* the document whose rows the run asks deleteDocumentEmbeddings to delete
DeleteTarget(documentId) == documentId

\* deleteDocumentEmbeddings({documentId})
deleteDocumentEmbeddings(store, documentId) ==
    {r \in store : r.documentId # documentId}

\* saveDocumentEmbeddings({embeddings}): one insert of all rows
saveDocumentEmbeddings(store, rows) == store \cup rows

RowsOf(store, documentId) == {r \in store : r.documentId = documentId}

IdleRun == [pc |-> "idle", documentId |-> "none", content |-> <<>>,
            cleaned |-> <<>>, embeddings |-> <<>>, run |-> 0,
            deleted |-> FALSE, wrote |-> {}, before |-> {},
            result |-> "none"]

NoRun == [run |-> 0, deleted |-> FALSE, wrote |-> {}, before |-> {},
          content |-> <<>>, result |-> "none"]

IxSet(p, rec) == ixProc' = [ixProc EXCEPT ![p] = rec]

\* execute is called; the session, the document and its owner are checked
\* (admitted) before the try block is entered
IxStart(p, d, content, admitted) ==
    /\ ixProc[p].pc = "idle"
    /\ ixRuns < MaxRuns
    /\ ixRuns' = ixRuns + 1
    /\ IxSet(p, [IdleRun EXCEPT
                    !.pc = IF admitted THEN "delete" ELSE "done",
                    !.documentId = d,
                    !.content = content,
                    !.run = ixRuns + 1,
                    !.before = RowsOf(ixStore, d),
                    !.result = IF admitted THEN "none" ELSE "rejected"])
    /\ UNCHANGED <<ixStore, ixLast, ixOthers>>

\* step 1: deleteDocumentEmbeddings returns (ok) or throws
IxDelete(p, ok) ==
    /\ ixProc[p].pc = "delete"
    /\ IF ok
       THEN /\ ixStore' = deleteDocumentEmbeddings(
                              ixStore, DeleteTarget(ixProc[p].documentId))
            /\ IxSet(p, [ixProc[p] EXCEPT !.pc = "chunk", !.deleted = TRUE])
       ELSE /\ ixStore' = ixStore
            /\ IxSet(p, [ixProc[p] EXCEPT !.pc = "done", !.result = "failed"])
    /\ UNCHANGED <<ixRuns, ixLast, ixOthers>>

\* steps 2 and 3: chunkText returns (ok) or throws; the chunks are made
\* unique and cleaned, and the run ends early when none is left
IxChunk(p, ok) ==
    /\ ixProc[p].pc = "chunk"
    /\ LET chunks == chunkText(ixProc[p].content)
           uniqueChunks == UniqueChunks(chunks)
           cleanedChunks == CleanedChunks(uniqueChunks)
       IN IxSet(p,
              IF ~ok
              THEN [ixProc[p] EXCEPT !.pc = "done", !.result = "failed"]
              ELSE IF Len(uniqueChunks) = 0
              THEN [ixProc[p] EXCEPT !.pc = "done", !.result = "too_short"]
              ELSE IF Len(cleanedChunks) = 0
              THEN [ixProc[p] EXCEPT !.pc = "done",
                                     !.result = "empty_after_cleaning"]
              ELSE [ixProc[p] EXCEPT !.pc = "embed",
                                     !.cleaned = cleanedChunks])
    /\ UNCHANGED <<ixStore, ixRuns, ixLast, ixOthers>>

\* step 4: generateEmbeddings returns its list of vectors or throws
IxEmbed(p, answer) ==
    /\ ixProc[p].pc = "embed"
    /\ IxSet(p, IF answer # "throw"
                THEN [ixProc[p] EXCEPT
                         !.pc = "save",
                         !.embeddings =
                             EmbeddingsFor(ixProc[p].cleaned, answer)]
                ELSE [ixProc[p] EXCEPT !.pc = "done", !.result = "failed"])
    /\ UNCHANGED <<ixStore, ixRuns, ixLast, ixOthers>>

\* step 5: saveDocumentEmbeddings returns (ok) or throws
IxSave(p, ok) ==
    /\ ixProc[p].pc = "save"
    /\ LET rows == NewRows(ixProc[p].documentId, ixProc[p].cleaned,
                           ixProc[p].embeddings, ixProc[p].run)
       IN IF ok /\ Insertable(rows)
          THEN /\ ixStore' = saveDocumentEmbeddings(ixStore, rows)
               /\ IxSet(p, [ixProc[p] EXCEPT !.pc = "done", !.wrote = rows,
                                             !.result = "success"])
          ELSE /\ ixStore' = ixStore
               /\ IxSet(p, [ixProc[p] EXCEPT !.pc = "done",
                                             !.result = "failed"])
    /\ UNCHANGED <<ixRuns, ixLast, ixOthers>>

\* execute returns its result; a run that entered the try block is the
\* document's last completed run
IxReturn(p) ==
    /\ ixProc[p].pc = "done"
    /\ ixLast' = IF ixProc[p].result = "rejected" THEN ixLast
                 ELSE [ixLast EXCEPT ![ixProc[p].documentId] =
                          [run |-> ixProc[p].run,
                           deleted |-> ixProc[p].deleted,
                           wrote |-> ixProc[p].wrote,
                           before |-> ixProc[p].before,
                           content |-> ixProc[p].content,
                           result |-> ixProc[p].result]]
    /\ IxSet(p, IdleRun)
    /\ UNCHANGED <<ixStore, ixRuns, ixOthers>>

IxInit ==
    /\ ixStore = {}
    /\ ixProc = [p \in Requests |-> IdleRun]
    /\ ixRuns = 0
    /\ ixLast = [d \in IndexedDocs |-> NoRun]

\* no other request is indexing
IxAlone == \A q \in Requests : ixProc[q].pc = "idle"

\* indexing requests served at the same time
IxNext ==
    \/ \E p \in Requests, d \in IndexedDocs, content \in SplitOutputs,
          admitted \in BOOLEAN : IxStart(p, d, content, admitted)
    \/ \E p \in Requests, ok \in BOOLEAN : IxDelete(p, ok)
    \/ \E p \in Requests, ok \in BOOLEAN : IxChunk(p, ok)
    \/ \E p \in Requests, answer \in EmbeddingAnswers : IxEmbed(p, answer)
    \/ \E p \in Requests, ok \in BOOLEAN : IxSave(p, ok)
    \/ \E p \in Requests : IxReturn(p)

\* indexing requests served one after another
IxNextSeq ==
    \/ /\ IxAlone
       /\ \E p \in Requests, d \in IndexedDocs, content \in SplitOutputs,
             admitted \in BOOLEAN : IxStart(p, d, content, admitted)
    \/ \E p \in Requests, ok \in BOOLEAN : IxDelete(p, ok)
    \/ \E p \in Requests, ok \in BOOLEAN : IxChunk(p, ok)
    \/ \E p \in Requests, answer \in EmbeddingAnswers : IxEmbed(p, answer)
    \/ \E p \in Requests, ok \in BOOLEAN : IxSave(p, ok)
    \/ \E p \in Requests : IxReturn(p)

(***************************************************************************)
(* Text extraction (extractTextFromFile)                                   *)
(***************************************************************************)
Pdf == "application/pdf"
Plain == "text/plain"
Markdown == "text/markdown"
OctetStream == "application/octet-stream"

\* mimeType arguments and the endings of fileName
MimeTypes == {Pdf, Plain, Markdown, OctetStream, "image/png"}
Extensions == {".pdf", ".txt", ".md", ".bin"}

\* the texts a loader can yield
LoadedTexts == {<<>>, <<" ">>, <<"a">>}

\* the branch extractTextFromFile takes for its arguments
ExtractBranch(mimeType, ext) ==
    IF mimeType = Pdf THEN "pdf"
    ELSE IF mimeType = Plain \/ mimeType = Markdown
            \/ ext = ".txt" \/ ext = ".md"
         THEN "text"
         ELSE "unsupported"

NoOutcome == [kind |-> "none", text |-> <<>>]
Outcome(kind, text) == [kind |-> kind, text |-> text]

FinallyResultPropagates(body, unlinkOk) ==
    IF unlinkOk THEN body ELSE Outcome("unlink_error", <<>>)

\* what the call yields after the finally block: the try block's outcome,
\* whether or not unlink threw
FinallyResult(body, unlinkOk) == body

\* extractTextFromFile is called
ExCall(mimeType, ext) ==
    /\ exPc = "idle"
    /\ exArgs' = [mimeType |-> mimeType, ext |-> ext]
    /\ exTemp' = FALSE
    /\ exWritten' = FALSE
    /\ exUnlink' = "none"
    /\ exBody' = NoOutcome
    /\ exResult' = NoOutcome
    /\ exPc' = "write"

\* writeFile returns (ok) or throws, having left a file behind or not
ExWrite(ok, left) ==
    /\ exPc = "write"
    /\ exTemp' = (ok \/ left)
    /\ exWritten' = (ok \/ left)
    /\ exBody' = IF ok THEN exBody ELSE Outcome("write_error", <<>>)
    /\ exPc' = IF ok THEN "load" ELSE "finally"
    /\ UNCHANGED <<exArgs, exUnlink, exResult, exOthers>>

\* the branch on the file type: a loader returns text (ok) or throws, or the
\* type is refused
ExLoad(ok, text) ==
    /\ exPc = "load"
    /\ exBody' = IF ExtractBranch(exArgs.mimeType, exArgs.ext) = "unsupported"
                 THEN Outcome("unsupported", <<>>)
                 ELSE IF ok THEN Outcome("text", text)
                 ELSE Outcome("loader_error", <<>>)
    /\ exPc' = "finally"
    /\ UNCHANGED <<exArgs, exTemp, exWritten, exUnlink, exResult, exOthers>>

\* the finally block: unlink removes the file (ok, when there is one) or
\* throws, which is ignored
ExFinally(ok) ==
    /\ exPc = "finally"
    /\ LET unlinkOk == ok /\ exTemp
       IN /\ exTemp' = IF unlinkOk THEN FALSE ELSE exTemp
          /\ exUnlink' = IF unlinkOk THEN "ok" ELSE "failed"
          /\ exResult' = FinallyResult(exBody, unlinkOk)
    /\ exPc' = "done"
    /\ UNCHANGED <<exArgs, exWritten, exBody, exOthers>>

\* a caller that does nothing else
ExCallAlone(mimeType, ext) == ExCall(mimeType, ext) /\ UNCHANGED exOthers

ExInit ==
    /\ exPc = "idle"
    /\ exArgs = [mimeType |-> OctetStream, ext |-> ".bin"]
    /\ exTemp = FALSE
    /\ exWritten = FALSE
    /\ exUnlink = "none"
    /\ exBody = NoOutcome
    /\ exResult = NoOutcome

\* calls of extractTextFromFile with any arguments
ExNext ==
    \/ \E mimeType \in MimeTypes, ext \in Extensions :
          ExCallAlone(mimeType, ext)
    \/ \E ok \in BOOLEAN, left \in BOOLEAN : ExWrite(ok, left)
    \/ \E ok \in BOOLEAN, text \in LoadedTexts : ExLoad(ok, text)
    \/ \E ok \in BOOLEAN : ExFinally(ok)

(***************************************************************************)
(* The upload route (POST /api/documents/upload)                           *)
(***************************************************************************)
\* file.type as the browser declares it; "" when it declares none
FileTypes == {"", Pdf, Plain, Markdown, "image/png"}

\* const mimeType = file.type || "application/octet-stream"
MimeTypeOf(type) == IF type = "" THEN OctetStream ELSE type

\* isValidType
IsValidType(mimeType, ext) ==
    \/ mimeType \in {Pdf, Plain, Markdown}
    \/ ext = ".pdf"
    \/ ext = ".txt"
    \/ ext = ".md"

NoResponse ==
    [status |-> 0, success |-> FALSE, warning |-> FALSE, chunksIndexed |-> 0,
     error |-> "none"]

\* NextResponse.json({error}, {status})
ErrorResponse(status, error) ==
    [status |-> status, success |-> FALSE, warning |-> FALSE,
     chunksIndexed |-> 0, error |-> error]

\* NextResponse.json({success: true, ..., chunksIndexed})
SuccessResponse(chunksIndexed) ==
    [status |-> 200, success |-> TRUE, warning |-> FALSE,
     chunksIndexed |-> chunksIndexed, error |-> "none"]

IndexingFailedResponseFatal(step) == ErrorResponse(500, "processing")

\* the response of the catch around the indexing steps
IndexingFailedResponse(step) ==
    [status |-> 200, success |-> TRUE, warning |-> TRUE, chunksIndexed |-> 0,
     error |-> "none"]

ValidationNoSize(file) ==
    IF ~file.authed THEN ErrorResponse(401, "unauthorized")
    ELSE IF ~file.hasBody THEN ErrorResponse(400, "empty_body")
    ELSE IF ~file.formOk THEN ErrorResponse(500, "processing")
    ELSE IF ~file.hasFile THEN ErrorResponse(400, "no_file")
    ELSE IF ~IsValidType(MimeTypeOf(file.type), file.ext)
         THEN ErrorResponse(400, "type")
         ELSE NoResponse

\* the checks before extraction, in the handler's order: the error each one
\* answers with, or "ok"
Validation(file) ==
    IF ~file.authed THEN ErrorResponse(401, "unauthorized")
    ELSE IF ~file.hasBody THEN ErrorResponse(400, "empty_body")
    ELSE IF ~file.formOk THEN ErrorResponse(500, "processing")
    ELSE IF ~file.hasFile THEN ErrorResponse(400, "no_file")
    ELSE IF file.oversize THEN ErrorResponse(400, "size")
    ELSE IF ~IsValidType(MimeTypeOf(file.type), file.ext)
         THEN ErrorResponse(400, "type")
         ELSE NoResponse

UpRespond(response) ==
    /\ upResponse' = response
    /\ upPc' = "done"

\* the request arrives; the handler validates it and, when valid, calls
\* extractTextFromFile
UpStart(file) ==
    /\ upPc = "idle"
    /\ upFile' = file
    /\ IF Validation(file) # NoResponse
       THEN /\ UpRespond(Validation(file))
            /\ UNCHANGED exVars
       ELSE /\ ExCall(MimeTypeOf(file.type), file.ext)
            /\ upPc' = "extract"
            /\ upResponse' = upResponse
    /\ UNCHANGED <<upText, upBlob, upDoc, upRowsTouched, upCleaned, upFailed,
                   upOthers>>

\* extractTextFromFile has returned or thrown
UpExtracted ==
    /\ upPc = "extract"
    /\ exPc = "done"
    /\ IF exResult.kind # "text"
       THEN UpRespond(ErrorResponse(500, "processing")) /\ upText' = upText
       ELSE IF Len(Trim(exResult.text)) = 0
       THEN UpRespond(ErrorResponse(400, "empty")) /\ upText' = upText
       ELSE /\ upText' = exResult.text
            /\ upPc' = "blob"
            /\ upResponse' = upResponse
    /\ UNCHANGED <<upFile, upBlob, upDoc, upRowsTouched, upCleaned, upFailed,
                   exVars, upOthers>>

\* put(filename, fileBuffer): optional, a failure is logged
UpBlob(ok) ==
    /\ upPc = "blob"
    /\ upBlob' = ok
    /\ upPc' = "save_document"
    /\ UNCHANGED <<upFile, upText, upDoc, upRowsTouched, upCleaned, upFailed,
                   upResponse, exVars, upOthers>>

\* saveDocument returns (ok) or throws
UpSaveDocument(ok) ==
    /\ upPc = "save_document"
    /\ upDoc' = ok
    /\ IF ok THEN upPc' = "delete" /\ upResponse' = upResponse
       ELSE UpRespond(ErrorResponse(500, "save_document"))
    /\ UNCHANGED <<upFile, upText, upBlob, upRowsTouched, upCleaned, upFailed,
                   exVars, upOthers>>

\* an indexing step threw: the catch answers
UpIndexingFailed(step) ==
    /\ upFailed' = step
    /\ UpRespond(IndexingFailedResponse(step))

\* deleteDocumentEmbeddings returns (ok) or throws
UpDelete(ok) ==
    /\ upPc = "delete"
    /\ upRowsTouched' = (upRowsTouched \/ ok)
    /\ IF ok THEN /\ upPc' = "chunk"
                  /\ UNCHANGED <<upFailed, upResponse>>
       ELSE UpIndexingFailed("delete")
    /\ UNCHANGED <<upFile, upText, upBlob, upDoc, upCleaned, exVars,
                   upOthers>>

\* chunkText returns the pieces textChunks (ok) or throws; duplicates and
\* chunks empty after cleaning are dropped
UpChunk(ok, textChunks) ==
    /\ upPc = "chunk"
    /\ LET uniqueChunks == UniqueChunks(chunkText(textChunks))
           cleanedChunks == CleanedChunks(uniqueChunks)
       IN IF ~ok
          THEN UpIndexingFailed("chunk") /\ upCleaned' = upCleaned
          ELSE IF Len(uniqueChunks) = 0 \/ Len(cleanedChunks) = 0
          THEN /\ UpRespond(SuccessResponse(0))
               /\ UNCHANGED <<upFailed, upCleaned>>
          ELSE /\ upCleaned' = cleanedChunks
               /\ upPc' = "embed"
               /\ UNCHANGED <<upFailed, upResponse>>
    /\ UNCHANGED <<upFile, upText, upBlob, upDoc, upRowsTouched, exVars,
                   upOthers>>

\* generateEmbeddings returns (ok) or throws
UpEmbed(ok) ==
    /\ upPc = "embed"
    /\ IF ok THEN /\ upPc' = "save"
                  /\ UNCHANGED <<upFailed, upResponse>>
       ELSE UpIndexingFailed("embed")
    /\ UNCHANGED <<upFile, upText, upBlob, upDoc, upRowsTouched, upCleaned,
                   exVars, upOthers>>

\* saveDocumentEmbeddings returns (ok) or throws
UpSave(ok) ==
    /\ upPc = "save"
    /\ upRowsTouched' = (upRowsTouched \/ ok)
    /\ IF ok THEN /\ UpRespond(SuccessResponse(Len(upCleaned)))
                  /\ upFailed' = upFailed
       ELSE UpIndexingFailed("save")
    /\ UNCHANGED <<upFile, upText, upBlob, upDoc, upCleaned, exVars,
                   upOthers>>

UploadedFiles ==
    [authed : BOOLEAN, hasBody : BOOLEAN, formOk : BOOLEAN,
     hasFile : BOOLEAN, oversize : BOOLEAN, type : FileTypes,
     ext : Extensions]

UpInit ==
    /\ upPc = "idle"
    /\ upFile = [authed |-> TRUE, hasBody |-> TRUE, formOk |-> TRUE,
                 hasFile |-> TRUE, oversize |-> FALSE, type |-> "",
                 ext |-> ".bin"]
    /\ upText = <<>>
    /\ upBlob = FALSE
    /\ upDoc = FALSE
    /\ upRowsTouched = FALSE
    /\ upCleaned = <<>>
    /\ upFailed = "none"
    /\ upResponse = NoResponse

\* the extractor's steps leave the handler where it is
UpNext ==
    \/ \E file \in UploadedFiles : UpStart(file)
    \/ \E ok \in BOOLEAN, left \in BOOLEAN : ExWrite(ok, left)
    \/ \E ok \in BOOLEAN, text \in LoadedTexts : ExLoad(ok, text)
    \/ \E ok \in BOOLEAN : ExFinally(ok)
    \/ UpExtracted
    \/ \E ok \in BOOLEAN : UpBlob(ok)
    \/ \E ok \in BOOLEAN : UpSaveDocument(ok)
    \/ \E ok \in BOOLEAN : UpDelete(ok)
    \/ \E ok \in BOOLEAN, textChunks \in SplitOutputs : UpChunk(ok, textChunks)
    \/ \E ok \in BOOLEAN : UpEmbed(ok)
    \/ \E ok \in BOOLEAN : UpSave(ok)

(***************************************************************************)
(* Batch embedding (generateEmbeddings)                                    *)
(***************************************************************************)
\* the longest texts argument
MaxTexts == 130

BATCH_SIZE == 64

\* the texts argument: n texts, each named by its position
TextsOf(n) == [k \in 1..n |-> k]

\* the outcomes of one upstream call: a 2xx response with a data array, a
\* non-2xx response, a 2xx response whose data is missing or not an array
UpstreamOutcomes == {"ok", "http_error", "no_data"}

BatchWhole(texts, i) == SubSeq(texts, i + 1, Len(texts))

\* texts.slice(i, i + BATCH_SIZE)
Batch(texts, i) ==
    SubSeq(texts, i + 1,
           IF i + BATCH_SIZE < Len(texts) THEN i + BATCH_SIZE ELSE Len(texts))

ContinuesAlways(outcome) == TRUE

\* neither of the two throws after the fetch is taken
Continues(outcome) == outcome = "ok"

EmNoResult == [kind |-> "none", vectors |-> <<>>, error |-> "none"]
EmThrown(error) == [kind |-> "thrown", vectors |-> <<>>, error |-> error]
EmReturned(vectors) ==
    [kind |-> "returned", vectors |-> vectors, error |-> "none"]

\* generateEmbeddings(texts) is called; without an API key it throws, with
\* no texts the loop is not entered
EmStart(n, apiKey) ==
    /\ emPc = "idle"
    /\ emTexts' = TextsOf(n)
    /\ emI' = 0
    /\ emCalls' = <<>>
    /\ emAll' = <<>>
    /\ IF ~apiKey THEN emResult' = EmThrown("api_key") /\ emPc' = "done"
       ELSE IF n = 0 THEN emResult' = EmReturned(<<>>) /\ emPc' = "done"
       ELSE emResult' = EmNoResult /\ emPc' = "call"
    /\ UNCHANGED emOthers

\* one iteration of the loop: the call for the window at i and its outcome
EmCall(outcome) ==
    /\ emPc = "call"
    /\ LET batch == Batch(emTexts, emI)
           all == IF outcome = "ok" THEN emAll \o BatchEmbeddings(batch)
                  ELSE emAll
       IN /\ emCalls' = Append(emCalls, [i |-> emI, input |-> batch,
                                         outcome |-> outcome])
          /\ IF ~Continues(outcome)
             THEN /\ emResult' = EmThrown(outcome)
                  /\ emPc' = "done"
                  /\ UNCHANGED <<emAll, emI>>
             ELSE /\ emAll' = all
                  /\ emI' = emI + BATCH_SIZE
                  /\ IF emI + BATCH_SIZE < Len(emTexts)
                     THEN emResult' = emResult /\ emPc' = "call"
                     ELSE emResult' = EmReturned(all) /\ emPc' = "done"
    /\ UNCHANGED <<emTexts, emOthers>>

EmInit ==
    /\ emPc = "idle"
    /\ emTexts = <<>>
    /\ emI = 0
    /\ emCalls = <<>>
    /\ emAll = <<>>
    /\ emResult = EmNoResult

EmNext ==
    \/ \E n \in 0..MaxTexts, apiKey \in BOOLEAN : EmStart(n, apiKey)
    \/ \E outcome \in UpstreamOutcomes : EmCall(outcome)

(***************************************************************************)
(* The cache client (getRedisClient)                                       *)
(***************************************************************************)
\* createClient calls the model allows
MaxCreations == 2

\* the concurrent cache operations
CacheCallers == {"c1", "c2", "c3"}

\* redisClient.isOpen: true from the call of connect until the client closes
IsOpen(client) == client \in {"connecting", "ready"}

NeedsClientUnlessReady(client) == client # "ready"

\* if (!redisClient)
NeedsClient(client) == client = "null"

\* redisClient.connect() is called by caller c, who then awaits it at place
RcConnect(c, client, place) ==
    /\ rcBadConnect' = (rcBadConnect \/ IsOpen(client))
    /\ rcClient' = "connecting"
    /\ rcCalls' = [rcCalls EXCEPT ![c] = place]

\* a cache operation calls getRedisClient: the statements up to the first
\* await, or up to the return when nothing is awaited
RcEnter(c, hasUrl) ==
    /\ rcCalls[c] = "idle"
    /\ IF ~hasUrl
       THEN /\ rcCalls' = [rcCalls EXCEPT ![c] = "threw"]
            /\ UNCHANGED <<rcClient, rcCreations, rcBadConnect>>
       ELSE IF NeedsClient(rcClient)
       THEN /\ rcCreations < MaxCreations
            /\ rcCreations' = rcCreations + 1
            /\ RcConnect(c, "closed", "connect_new")
       ELSE IF ~IsOpen(rcClient)
       THEN /\ RcConnect(c, rcClient, "connect_again")
            /\ UNCHANGED rcCreations
       ELSE /\ rcCalls' = [rcCalls EXCEPT ![c] = "returned"]
            /\ UNCHANGED <<rcClient, rcCreations, rcBadConnect>>
    /\ UNCHANGED rcOthers

\* the connect a caller awaits resolves (ok) or rejects
RcConnected(c, ok) ==
    /\ rcCalls[c] \in {"connect_new", "connect_again"}
    /\ rcClient = "connecting"
    /\ rcClient' = IF ok THEN "ready" ELSE "closed"
    /\ rcCalls' = [rcCalls EXCEPT ![c] =
                      IF ~ok THEN "threw"
                      ELSE IF rcCalls[c] = "connect_new" THEN "created"
                      ELSE "returned"]
    /\ UNCHANGED <<rcCreations, rcBadConnect, rcOthers>>

\* the creating caller goes on after its await: the isOpen check and return
RcResume(c) ==
    /\ rcCalls[c] = "created"
    /\ IF ~IsOpen(rcClient)
       THEN RcConnect(c, rcClient, "connect_again")
       ELSE /\ rcCalls' = [rcCalls EXCEPT ![c] = "returned"]
            /\ UNCHANGED <<rcClient, rcBadConnect>>
    /\ UNCHANGED <<rcCreations, rcOthers>>

\* the connection of the open client is lost for good
RcClose ==
    /\ rcClient = "ready"
    /\ rcClient' = "closed"
    /\ UNCHANGED <<rcCreations, rcCalls, rcBadConnect, rcOthers>>

\* the cache operation of caller c is over
RcDone(c) ==
    /\ rcCalls[c] \in {"returned", "threw"}
    /\ rcCalls' = [rcCalls EXCEPT ![c] = "idle"]
    /\ UNCHANGED <<rcClient, rcCreations, rcBadConnect, rcOthers>>

RcInit ==
    /\ rcClient = "null"
    /\ rcCreations = 0
    /\ rcCalls = [c \in CacheCallers |-> "idle"]
    /\ rcBadConnect = FALSE

RcNext ==
    \/ \E c \in CacheCallers, hasUrl \in BOOLEAN : RcEnter(c, hasUrl)
    \/ \E c \in CacheCallers, ok \in BOOLEAN : RcConnected(c, ok)
    \/ \E c \in CacheCallers : RcResume(c)
    \/ RcClose
    \/ \E c \in CacheCallers : RcDone(c)

(***************************************************************************)
(* Cleaning a text twice                                                   *)
(***************************************************************************)
\* the longest text cleaned
MaxTextLen == 5

\* the characters of the texts cleaned
CleanChars == {" ", "\n", "a", ".", "ZW"}

CleanTexts == UNION {[1..n -> CleanChars] : n \in 0..MaxTextLen}

\* a caller cleans the text
ClClean ==
    /\ clPc = "given"
    /\ clOnce' = cleanTextForEmbedding(clText)
    /\ clPc' = "once"
    /\ UNCHANGED <<clText, clTwice, clOthers>>

\* a caller cleans the cleaned text
ClCleanAgain ==
    /\ clPc = "once"
    /\ clTwice' = cleanTextForEmbedding(clOnce)
    /\ clPc' = "twice"
    /\ UNCHANGED <<clText, clOnce, clOthers>>

ClInitWith(text) ==
    /\ clPc = "given"
    /\ clText = text
    /\ clOnce = <<>>
    /\ clTwice = <<>>

ClInit == ClInitWith(<<>>)

ClNext ==
    \/ ClClean
    \/ ClCleanAgain

(***************************************************************************)
(* chunkText: the pieces of the splitter placed in the text                *)
(***************************************************************************)
MaxChunkTextLen == 4    \* the longest text chunked
MaxPieces == 3          \* the most pieces the splitter returns
MaxPieceLen == 2        \* the longest piece

ChunkChars == {"a", " "}
ChunkTexts == UNION {[1..n -> ChunkChars] : n \in 0..MaxChunkTextLen}
Pieces == UNION {[1..n -> ChunkChars] : n \in 0..MaxPieceLen}
PieceLists == UNION {[1..n -> Pieces] : n \in 0..MaxPieces}

\* text.indexOf(sub, from), for a non-empty sub: the first position at or
\* after from where sub stands, or -1
IndexOf(text, sub, from) ==
    LET at == {i \in from..(Len(text) - Len(sub)) :
                  SubSeq(text, i + 1, i + Len(sub)) = sub}
    IN IF at = {} THEN -1 ELSE CHOOSE i \in at : \A j \in at : i <= j

SearchFromStart(currentIndex) == 0

\* the position the search for a piece starts from
SearchFrom(currentIndex) == currentIndex

\* one iteration of the loop over textChunks
CkStep ==
    /\ ckNext <= Len(ckPieces)
    /\ LET trimmedText == Trim(ckPieces[ckNext])
           startIndex == IndexOf(ckText, trimmedText,
                                 SearchFrom(ckCurrentIndex))
       IN IF Len(trimmedText) = 0
          THEN UNCHANGED <<ckChunks, ckCurrentIndex>>
          ELSE IF startIndex >= 0
          THEN /\ ckChunks' = Append(ckChunks,
                                 [text |-> trimmedText,
                                  startIndex |-> startIndex,
                                  endIndex |-> startIndex + Len(trimmedText)])
               /\ ckCurrentIndex' = startIndex + Len(trimmedText)
          ELSE /\ ckChunks' = Append(ckChunks,
                                 [text |-> trimmedText,
                                  startIndex |-> ckCurrentIndex,
                                  endIndex |-> ckCurrentIndex
                                                  + Len(trimmedText)])
               /\ ckCurrentIndex' = ckCurrentIndex + Len(trimmedText)
    /\ ckNext' = ckNext + 1
    /\ UNCHANGED <<ckText, ckPieces, ckOthers>>

CkInitWith(text, textChunks) ==
    /\ ckText = text
    /\ ckPieces = textChunks
    /\ ckNext = 1
    /\ ckCurrentIndex = 0
    /\ ckChunks = <<>>

CkInit == CkInitWith(<<>>, <<>>)

CkNext == CkStep

(***************************************************************************)
(* Deduplication of chunks                                                 *)
(***************************************************************************)
\* the longest chunk list deduplicated
MaxChunkList == 4

\* chunk texts: some equal after trimming, some not
ChunkTextsToDedup == {<<"a">>, <<"a", " ">>, <<" ", "a">>, <<"b">>, <<>>}

ChunkLists == UNION {[1..n -> ChunkTextsToDedup] : n \in 0..MaxChunkList}

\* the filter that removes duplicate chunks
DdFilter ==
    /\ ddPc = "given"
    /\ ddUnique' = UniqueChunks(ddChunks)
    /\ ddPc' = "done"
    /\ UNCHANGED <<ddChunks, ddOthers>>

DdInitWith(chunks) ==
    /\ ddPc = "given"
    /\ ddChunks = chunks
    /\ ddUnique = <<>>

DdInit == DdInitWith(<<>>)

DdNext == DdFilter

(***************************************************************************)
(* Concurrent extraction calls and their temporary files                   *)
(***************************************************************************)
\* the last millisecond the clock reaches
MaxNow == 2

\* the extraction calls running at the same time
ExtractCalls == {"t1", "t2"}

\* fileName arguments
FileNames == {"a.txt", "b.txt"}

\* join(tmpdir(), `upload-${Date.now()}-${fileName}`)
TempFilePath(now, fileName) == <<"upload", now, fileName>>

TempPaths == {TempFilePath(now, fileName) : now \in 1..MaxNow,
                                             fileName \in FileNames}

NoFile == "none"
IdleCall == [pc |-> "idle", path |-> NoFile]

\* the file at path holds the bytes of a call other than c
HoldsOthers(files, path, c) == files[path] \notin {NoFile, c}

\* the clock advances
TxTick ==
    /\ txNow < MaxNow
    /\ txNow' = txNow + 1
    /\ UNCHANGED <<txFiles, txProc, txInterfered, txOthers>>

\* extractTextFromFile is called: the path is computed
TxCall(c, fileName) ==
    /\ txProc[c].pc = "idle"
    /\ txProc' = [txProc EXCEPT ![c] =
                     [pc |-> "write",
                      path |-> TempFilePath(txNow, fileName)]]
    /\ UNCHANGED <<txNow, txFiles, txInterfered, txOthers>>

\* writeFile(tempFilePath, buffer) returns (ok) or throws
TxWrite(c, ok) ==
    /\ txProc[c].pc = "write"
    /\ LET path == txProc[c].path
       IN /\ txInterfered' = (txInterfered
                                \/ (ok /\ HoldsOthers(txFiles, path, c)))
          /\ txFiles' = IF ok THEN [txFiles EXCEPT ![path] = c] ELSE txFiles
    /\ txProc' = [txProc EXCEPT ![c].pc = IF ok THEN "load" ELSE "unlink"]
    /\ UNCHANGED <<txNow, txOthers>>

\* the loader reads the file at tempFilePath
TxLoad(c) ==
    /\ txProc[c].pc = "load"
    /\ txInterfered' = (txInterfered
                           \/ HoldsOthers(txFiles, txProc[c].path, c))
    /\ txProc' = [txProc EXCEPT ![c].pc = "unlink"]
    /\ UNCHANGED <<txNow, txFiles, txOthers>>

\* the finally block: unlink(tempFilePath) removes the file (ok) or throws
TxUnlink(c, ok) ==
    /\ txProc[c].pc = "unlink"
    /\ LET path == txProc[c].path
           removes == ok /\ txFiles[path] # NoFile
       IN /\ txInterfered' = (txInterfered
                                \/ (removes /\ HoldsOthers(txFiles, path, c)))
          /\ txFiles' = IF removes THEN [txFiles EXCEPT ![path] = NoFile]
                        ELSE txFiles
    /\ txProc' = [txProc EXCEPT ![c].pc = "done"]
    /\ UNCHANGED <<txNow, txOthers>>

TxInit ==
    /\ txNow = 1
    /\ txFiles = [path \in TempPaths |-> NoFile]
    /\ txProc = [c \in ExtractCalls |-> IdleCall]
    /\ txInterfered = FALSE

TxNext ==
    \/ TxTick
    \/ \E c \in ExtractCalls, fileName \in FileNames : TxCall(c, fileName)
    \/ \E c \in ExtractCalls, ok \in BOOLEAN : TxWrite(c, ok)
    \/ \E c \in ExtractCalls : TxLoad(c)
    \/ \E c \in ExtractCalls, ok \in BOOLEAN : TxUnlink(c, ok)

(***************************************************************************)
(* The custom streaming chat handler (files/newUpload)                     *)
(***************************************************************************)
\* the most events taken from the model stream
MaxEvents == 4

\* the texts of text-delta and reasoning-delta events, the tool call ids
DeltaTexts == {<<"a">>, <<"b">>}
ReasoningDeltas == {<<"r">>}
ToolCallIds == {"k1", "k2"}

NoMsg == [absent |-> TRUE]
AssistantMessage(parts) ==
    [absent |-> FALSE, parts |-> parts]

ReasoningPart(text) ==
    [type |-> "reasoning", text |-> text, toolCallId |-> "", state |-> ""]
TextPart(text) ==
    [type |-> "text", text |-> text, toolCallId |-> "", state |-> ""]
ToolPart(toolCallId, state) ==
    [type |-> "tool", text |-> <<>>, toolCallId |-> toolCallId,
     state |-> state]

\* the parts of a finalMessage built from reasoningText and currentText
BaseParts(reasoningText, currentText) ==
    (IF reasoningText # <<>> THEN <<ReasoningPart(reasoningText)>> ELSE <<>>)
    \o (IF currentText # <<>> THEN <<TextPart(currentText)>> ELSE <<>>)

\* finishedMessages.find((m) => m.id === currentMessageId), created from the
\* texts so far when absent
FoundOrCreated(finalMessage, reasoningText, currentText) ==
    IF finalMessage = NoMsg
    THEN AssistantMessage(BaseParts(reasoningText, currentText))
    ELSE finalMessage

\* parts with the text of the first part of the type set to text
WithTextOfFirst(parts, type, text) ==
    LET at == {k \in 1..Len(parts) : parts[k].type = type}
        first == CHOOSE k \in at : \A j \in at : k <= j
    IN IF at = {} THEN parts
       ELSE [parts EXCEPT ![first] = [parts[first] EXCEPT !.text = text]]

\* the parts of a finalMessage found in finishedMessages when the stream has
\* ended: an existing reasoning or text part gets the current text; a
\* missing one is pushed to a local array that is not used afterwards; the
\* parts are put in the order reasoning, text, others
FinalParts(parts, reasoningText, currentText) ==
    LET has(type) == \E k \in 1..Len(parts) : parts[k].type = type
        p1 == IF reasoningText # <<>> /\ has("reasoning")
              THEN WithTextOfFirst(parts, "reasoning", reasoningText)
              ELSE parts
        p2 == IF currentText # <<>> /\ has("text")
              THEN WithTextOfFirst(p1, "text", currentText)
              ELSE p1
    IN SelectSeq(p2, LAMBDA p: p.type = "reasoning")
       \o SelectSeq(p2, LAMBDA p: p.type = "text")
       \o SelectSeq(p2, LAMBDA p: p.type \notin {"reasoning", "text"})

\* controller.enqueue is called
Enqueue == stLateEnqueue' = (stLateEnqueue \/ stClosed)

\* the start callback of the stream runs; titlePromise exists for a new chat
StStart(hasTitlePromise) ==
    /\ stPc = "idle"
    /\ stPc' = "streaming"
    /\ stTitle' = IF hasTitlePromise THEN "pending" ELSE "none"
    /\ UNCHANGED <<stReasoningActive, stEvents, stCurrentText,
                   stReasoningText, stHasId, stMessage, stReceived, stSent,
                   stSaved, stClosed, stLateEnqueue, stOthers>>

\* titlePromise resolves: the title event is enqueued
StTitleResolved ==
    /\ stTitle = "pending"
    /\ stTitle' = "resolved"
    /\ Enqueue
    /\ UNCHANGED <<stReasoningActive, stPc, stEvents, stCurrentText,
                   stReasoningText, stHasId, stMessage, stReceived, stSent,
                   stSaved, stClosed, stOthers>>

StTakesEvent ==
    /\ stPc = "streaming"
    /\ stEvents < MaxEvents
    /\ stEvents' = stEvents + 1

\* a text-delta event
StTextDelta(text) ==
    /\ StTakesEvent
    /\ stCurrentText' = stCurrentText \o text
    /\ stReceived' = stReceived \o text
    /\ stHasId' = TRUE
    /\ Enqueue
    /\ UNCHANGED <<stReasoningActive, stPc, stReasoningText, stMessage,
                   stSent, stSaved, stTitle, stClosed, stOthers>>

\* a reasoning-start event
StReasoningStart ==
    /\ StTakesEvent
    /\ stReasoningActive' = TRUE
    /\ stReasoningText' = <<>>
    /\ UNCHANGED <<stPc, stCurrentText, stHasId, stMessage, stReceived,
                   stSent, stSaved, stTitle, stClosed, stLateEnqueue,
                   stOthers>>

\* a reasoning-delta event
StReasoningDelta(text) ==
    /\ StTakesEvent
    /\ stReasoningText' = stReasoningText \o text
    /\ stHasId' = TRUE
    /\ Enqueue
    /\ UNCHANGED <<stReasoningActive, stPc, stCurrentText, stMessage,
                   stReceived, stSent, stSaved, stTitle, stClosed, stOthers>>

\* a reasoning-end event
StReasoningEnd ==
    /\ StTakesEvent
    /\ stReasoningActive' = FALSE
    /\ UNCHANGED <<stPc, stCurrentText, stReasoningText, stHasId, stMessage,
                   stReceived, stSent, stSaved, stTitle, stClosed,
                   stLateEnqueue, stOthers>>

\* a tool-call event
StToolCall(toolCallId) ==
    /\ StTakesEvent
    /\ stHasId' = TRUE
    /\ LET finalMessage == FoundOrCreated(stMessage, stReasoningText,
                                     stCurrentText)
           kept == SelectSeq(finalMessage.parts,
                       LAMBDA p: ~(p.type = "tool"
                                   /\ p.toolCallId = toolCallId))
       IN stMessage' = AssistantMessage(
                           Append(kept, ToolPart(toolCallId, "partial-call")))
    /\ Enqueue
    /\ UNCHANGED <<stReasoningActive, stPc, stCurrentText, stReasoningText,
                   stReceived, stSent, stSaved, stTitle, stClosed, stOthers>>

\* a tool-result event
StToolResult(toolCallId) ==
    /\ StTakesEvent
    /\ IF stMessage = NoMsg /\ ~stHasId
       THEN UNCHANGED <<stMessage, stLateEnqueue>>
       ELSE LET finalMessage == FoundOrCreated(stMessage, stReasoningText,
                                          stCurrentText)
                at == {k \in 1..Len(finalMessage.parts) :
                          /\ finalMessage.parts[k].type = "tool"
                          /\ finalMessage.parts[k].toolCallId = toolCallId}
                first == CHOOSE k \in at : \A j \in at : k <= j
            IN /\ stMessage' =
                     IF at = {}
                     THEN AssistantMessage(Append(finalMessage.parts,
                                     ToolPart(toolCallId, "none")))
                     ELSE AssistantMessage([finalMessage.parts EXCEPT
                                  ![first] = ToolPart(toolCallId, "result")])
               /\ Enqueue
    /\ UNCHANGED <<stReasoningActive, stPc, stCurrentText, stReasoningText,
                   stHasId, stReceived, stSent, stSaved, stTitle, stClosed,
                   stOthers>>

\* the model stream has ended: the final finalMessage is built and enqueued, or,
\* without a finalMessage id, the stream is closed at once
StFinal ==
    /\ stPc = "streaming"
    /\ IF stHasId
       THEN LET final == IF stMessage = NoMsg
                         THEN AssistantMessage(
                                  BaseParts(stReasoningText, stCurrentText))
                         ELSE AssistantMessage(
                                  FinalParts(stMessage.parts, stReasoningText,
                                             stCurrentText))
            IN /\ stMessage' = final
               /\ stSent' = final
               /\ Enqueue
               /\ stPc' = "saving"
               /\ UNCHANGED stClosed
       ELSE /\ stClosed' = TRUE
            /\ stPc' = "closed"
            /\ UNCHANGED <<stMessage, stSent, stLateEnqueue>>
    /\ UNCHANGED <<stReasoningActive, stEvents, stCurrentText,
                   stReasoningText, stHasId, stReceived, stSaved, stTitle,
                   stOthers>>

\* saveMessages or updateMessage returns (ok) and the stream is closed, or
\* throws and the catch enqueues an error event and closes the stream
StSaved(ok) ==
    /\ stPc = "saving"
    /\ stSaved' = IF ok THEN stMessage ELSE stSaved
    /\ IF ok THEN UNCHANGED stLateEnqueue ELSE Enqueue
    /\ stClosed' = TRUE
    /\ stPc' = "closed"
    /\ UNCHANGED <<stReasoningActive, stEvents, stCurrentText,
                   stReasoningText, stHasId, stMessage, stReceived, stSent,
                   stTitle, stOthers>>

\* the model stream throws: the catch enqueues an error event and closes
StStreamError ==
    /\ stPc = "streaming"
    /\ Enqueue
    /\ stClosed' = TRUE
    /\ stPc' = "closed"
    /\ UNCHANGED <<stReasoningActive, stEvents, stCurrentText,
                   stReasoningText, stHasId, stMessage, stReceived, stSent,
                   stSaved, stTitle, stOthers>>

StInit ==
    /\ stPc = "idle"
    /\ stEvents = 0
    /\ stCurrentText = <<>>
    /\ stReasoningText = <<>>
    /\ stReasoningActive = FALSE
    /\ stHasId = FALSE
    /\ stMessage = NoMsg
    /\ stReceived = <<>>
    /\ stSent = NoMsg
    /\ stSaved = NoMsg
    /\ stTitle = "none"
    /\ stClosed = FALSE
    /\ stLateEnqueue = FALSE

StNext ==
    \/ \E hasTitlePromise \in BOOLEAN : StStart(hasTitlePromise)
    \/ StTitleResolved
    \/ \E text \in DeltaTexts : StTextDelta(text)
    \/ StReasoningStart
    \/ \E text \in ReasoningDeltas : StReasoningDelta(text)
    \/ StReasoningEnd
    \/ \E toolCallId \in ToolCallIds : StToolCall(toolCallId)
    \/ \E toolCallId \in ToolCallIds : StToolResult(toolCallId)
    \/ StFinal
    \/ \E ok \in BOOLEAN : StSaved(ok)
    \/ StStreamError

OtherInit ==
    IxInit /\ ExInit /\ UpInit /\ EmInit /\ RcInit /\ TxInit /\ StInit

RestInit == OtherInit /\ ClInit /\ CkInit /\ DdInit

(***************************************************************************)
(* The chat turn: data                                                     *)
(***************************************************************************)
MaxFiles == 2               \* most file parts drawn for a request message

RouteMaxMessages == 30
CtxMaxMessages == 10
RouteSearchLimit == 5
CtxSearchLimit == 3
RouteQualityFloor == 60
CtxQualityFloor == 0
RouteShortQueryLen == 10
RouteShortThreshold == 50
RouteLongThreshold == 70
CtxThreshold == 0

Users == {"u1", "u2"}
NoFileId == "nofile"
MessageId == 10             \* id of the request message
FirstFreshId == 20          \* first id handed out by generateUUID

\* a ChatMessage; kind records where the message was created, docs the
\* documents a context message was formatted from, ref the file of an
\* attachment message
Msg(id, role, kind, text, docs, ref) ==
    [id |-> id, role |-> role, kind |-> kind, text |-> text, docs |-> docs,
     ref |-> ref]

\* the array element that "message as ChatMessage" yields without a message
UndefinedMsg == Msg(0, "undefined", "undefined", <<>>, <<>>, "")

StoredHistory ==
    <<Msg(1, "user", "stored", <<"a">>, <<>>, ""),
      Msg(2, "assistant", "stored", <<"b">>, <<>>, "")>>

\* the Message rows a chat may hold when a turn starts
InitialDbs == {<<>>, StoredHistory}

\* requestBody.messages of a tool-approval continuation
ClientMessages == {StoredHistory}

\* texts of the request message: getTextFromMessage(message)
QueryTexts ==
    {<<>>, <<" ">>, <<"ZW">>, <<"a", "?", "?", "?">>,
     <<"a", "a", "a", "a", "a", "a", "a", "a", "a", "ZW">>,
     <<"a", "a", "a", "a", "a", "a", "a", "a", "a", "a">>}

FileParts ==
    {[fileId |-> "f1", mediaType |-> "application/pdf"],
     [fileId |-> "f2", mediaType |-> "text/plain"],
     [fileId |-> NoFileId, mediaType |-> "image/png"]}
FileLists == UNION {[1..n -> FileParts] : n \in 0..MaxFiles}

RequestMessages ==
    {NoMessage} \cup [id : {MessageId}, role : {"user"}, text : QueryTexts,
                      files : FileLists]

\* the Document table: owner of each document
DocumentOwner(documentId) ==
    IF documentId \in {"d1", "d2"} THEN "u1" ELSE "u2"

\* DocumentEmbedding rows; similarity is the cosine similarity of the row's
\* vector to the vector of the turn's query
CandidateRows ==
    {[documentId |-> "d1", documentTitle |-> "T1", chunkIndex |-> 0,
      similarity |-> 90],
     [documentId |-> "d1", documentTitle |-> "T1", chunkIndex |-> 1,
      similarity |-> 40],
     [documentId |-> "d2", documentTitle |-> "", chunkIndex |-> 0,
      similarity |-> 65],
     [documentId |-> "d2", documentTitle |-> "", chunkIndex |-> 1,
      similarity |-> 55],
     [documentId |-> "d3", documentTitle |-> "T3", chunkIndex |-> 0,
      similarity |-> 95]}

\* the contents of the DocumentEmbedding table a turn may find: no rows; one
\* user's rows at 0.9 and 0.4; a row at 0.55 beside another user's row; all
RowStores ==
    {{},
     {r \in CandidateRows : r.similarity \in {90, 40}},
     {r \in CandidateRows : r.similarity \in {55, 95}},
     CandidateRows}

(***************************************************************************)
(* The chat turn: helpers                                                  *)
(***************************************************************************)
MAX_MESSAGES(v) == IF v = "route" THEN RouteMaxMessages ELSE CtxMaxMessages

\* const dynamicThreshold = ...
DynamicThreshold(v, cleanedQuery) ==
    IF v = "route"
    THEN (IF Len(cleanedQuery) < RouteShortQueryLen
          THEN RouteShortThreshold ELSE RouteLongThreshold)
    ELSE CtxThreshold

SearchLimit(v) == IF v = "route" THEN RouteSearchLimit ELSE CtxSearchLimit

\* the floor of the filter that selects highQualityDocs
QualityFloor(v) == IF v = "route" THEN RouteQualityFloor ELSE CtxQualityFloor

\* role of the synthetic context message
ContextRole(v) == IF v = "route" THEN "user" ELSE "system"

RECURSIVE DescendingOf(_)
\* the rows of a set in descending order of similarity
DescendingOf(rows) ==
    IF rows = {} THEN <<>>
    ELSE LET top == CHOOSE r \in rows :
                        \A q \in rows : q.similarity <= r.similarity
         IN <<top>> \o DescendingOf(rows \ {top})

\* searchSimilarDocuments: the nearest rows of the user's own documents at or
\* above the threshold, best first, at most limit of them
searchSimilarDocuments(args, rows) ==
    LET own == {r \in rows : /\ DocumentOwner(r.documentId) = args.userId
                             /\ r.similarity >= args.similarityThreshold}
        sorted == DescendingOf(own)
    IN SubSeq(sorted, 1, IF Len(sorted) < args.limit THEN Len(sorted)
                         ELSE args.limit)

\* searchResults.map(...): the RetrievedDocument of each result
MapResults(v, results) ==
    [k \in 1..Len(results) |->
        [documentId |-> results[k].documentId,
         documentTitle |->
             IF v = "ctx" /\ results[k].documentTitle = ""
             THEN results[k].documentId
             ELSE results[k].documentTitle,
         similarity |-> results[k].similarity,
         chunkIndex |-> results[k].chunkIndex]]

RECURSIVE InsertSorted(_, _)
InsertSorted(sorted, doc) ==
    IF sorted = <<>> THEN <<doc>>
    ELSE IF Head(sorted).similarity >= doc.similarity
         THEN <<Head(sorted)>> \o InsertSorted(Tail(sorted), doc)
         ELSE <<doc>> \o sorted

RECURSIVE SortDescending(_)
\* docs.sort((a, b) => b.similarity - a.similarity), a stable sort
SortDescending(docs) ==
    IF docs = <<>> THEN <<>>
    ELSE InsertSorted(SortDescending(SubSeq(docs, 1, Len(docs) - 1)),
                      docs[Len(docs)])

\* retrievedDocuments.filter(...).sort(...)
HighQualityDocs(v, docs) ==
    SortDescending(SelectSeq(docs,
                             LAMBDA doc: doc.similarity >= QualityFloor(v)))

\* [...uiMessages.slice(0, -1), documentsMessage, uiMessages[length - 1]]
InsertBeforeLast(msgs, m) ==
    SubSeq(msgs, 1, Len(msgs) - 1) \o <<m>> \o <<msgs[Len(msgs)]>>

\* uiMessages.findIndex((m) => m.id === id), 0 when absent
FindIndex(msgs, id) ==
    IF \E k \in 1..Len(msgs) : msgs[k].id = id
    THEN CHOOSE k \in 1..Len(msgs) :
             /\ msgs[k].id = id
             /\ \A j \in 1..(k - 1) : msgs[j].id # id
    ELSE 0

\* uiMessages.splice(k - 1, 0, m): m becomes the k-th element
SpliceAt(msgs, k, m) ==
    SubSeq(msgs, 1, k - 1) \o <<m>> \o SubSeq(msgs, k, Len(msgs))

\* the file parts whose content is looked up in the cache
DocumentFileParts(msg) ==
    IF msg = NoMessage THEN <<>>
    ELSE SelectSeq(msg.files,
                   LAMBDA part:
                       /\ part.fileId # NoFileId
                       /\ part.mediaType \in {"application/pdf", "text/plain",
                                              "text/markdown"})

(***************************************************************************)
(* The chat turn: the handler                                              *)
(***************************************************************************)
EntryConditionNoTool(msg, uid, tool) ==
    /\ msg # NoMessage
    /\ msg.role = "user"
    /\ uid # NoUser

\* message?.role === "user" && userId && !isToolApprovalFlow
EntryCondition(msg, uid, tool) ==
    /\ msg # NoMessage
    /\ msg.role = "user"
    /\ uid # NoUser
    /\ ~tool

\* the query the retrieval run embeds for a message text, <<>> when the run
\* stops before the embedding
CleanedQueryFor(userMessageText) ==
    IF Len(Trim(userMessageText)) > 0
    THEN LET cleanedQuery == cleanQueryText(userMessageText)
         IN IF Len(Trim(cleanedQuery)) > 0 THEN cleanedQuery ELSE <<>>
    ELSE <<>>

\* CleanedQueryFor tabulated over the texts a request can carry, so that it
\* is computed once per text
CleanedQueryTable == [t \in QueryTexts |-> CleanedQueryFor(t)]

\* the query the retrieval run embeds for the request message
QueryToEmbed(msg) == CleanedQueryTable[msg.text]

SearchArgsFixedUser(v, uid, cleanedQuery) ==
    [limit |-> SearchLimit(v),
     similarityThreshold |-> DynamicThreshold(v, cleanedQuery),
     userId |-> "u1"]

\* the arguments of the searchSimilarDocuments call
SearchArgs(v, uid, cleanedQuery) ==
    [limit |-> SearchLimit(v),
     similarityThreshold |-> DynamicThreshold(v, cleanedQuery),
     userId |-> uid]

ShouldInjectAlways(docs) == Len(docs) >= 0

\* if (highQualityDocs.length > 0)
ShouldInject(docs) == Len(docs) > 0

RetrievalCatchesNoEmbed(site) == site \in {"search", "build"}

\* the statements of the retrieval run that lie inside its try block
RetrievalCatches(site) == site \in {"embedding", "search", "build"}

\* the request is parsed, the message sequence is assembled and the user's
\* message is saved
StartTurn(v, msg, tool, uid, clientMsgs) ==
    /\ pc = "start"
    /\ variant' = v
    /\ message' = msg
    /\ isToolApprovalFlow' = tool
    /\ userId' = uid
    /\ LET current == IF msg = NoMessage THEN UndefinedMsg
                      ELSE Msg(msg.id, msg.role, "current", msg.text, <<>>, "")
           messagesFromDb == IF tool THEN <<>>
                             ELSE JsSliceFrom(dbMessages, -MAX_MESSAGES(v))
       IN /\ uiMessages' = IF tool THEN clientMsgs
                           ELSE messagesFromDb \o <<current>>
          /\ dbMessages' = IF msg # NoMessage /\ msg.role = "user"
                           THEN Append(dbMessages, current) ELSE dbMessages
    /\ dbAtStart' = dbMessages
    /\ pc' = IF v = "ctx" THEN "attach" ELSE "retrieve"
    /\ UNCHANGED <<fileIdx, retrievalInput, retrievedDocuments,
                   highQualityDocs, caught, embedCalls, embedOk, searchCalls,
                   searchOk, searchResults, rewriteCalls, handed, nextId, storeVars, restVars,
                   rwVars>>

\* the attachment loop is entered for a user message outside tool approval
AttachCondition == message # NoMessage /\ message.role = "user"
                   /\ ~isToolApprovalFlow

\* one round of the attachment loop: the cache holds the file's content
\* (cached) or answers null.  A cached file is spliced in before the user's
\* message; the notice for an expired one is pushed at the end.
AttachFile(cached) ==
    /\ pc = "attach"
    /\ AttachCondition
    /\ fileIdx <= Len(DocumentFileParts(message))
    /\ LET filePart == DocumentFileParts(message)[fileIdx]
           userMessageIndex == FindIndex(uiMessages, message.id)
           fileContentMessage ==
               Msg(nextId, "user", "file", <<>>, <<>>, filePart.fileId)
           expiredMessage ==
               Msg(nextId, "user", "expired", <<>>, <<>>, filePart.fileId)
       IN uiMessages' =
              IF cached
              THEN (IF userMessageIndex # 0
                    THEN SpliceAt(uiMessages, userMessageIndex,
                                  fileContentMessage)
                    ELSE Append(uiMessages, fileContentMessage))
              ELSE Append(uiMessages, expiredMessage)
    /\ nextId' = nextId + 1
    /\ fileIdx' = fileIdx + 1
    /\ UNCHANGED <<variant, pc, message, isToolApprovalFlow, userId,
                   retrievalInput, retrievedDocuments, highQualityDocs,
                   caught, embedCalls, embedOk, searchCalls, searchOk, searchResults,
                   rewriteCalls, handed, dbMessages, dbAtStart, storeVars, restVars,
                   rwVars>>

\* the attachment loop is over (or was not entered)
AttachDone ==
    /\ pc = "attach"
    /\ ~AttachCondition \/ fileIdx > Len(DocumentFileParts(message))
    /\ pc' = "retrieve"
    /\ UNCHANGED <<variant, message, isToolApprovalFlow, userId, uiMessages,
                   fileIdx, retrievalInput, retrievedDocuments,
                   highQualityDocs, caught, embedCalls, embedOk, searchCalls,
                   searchOk, searchResults, rewriteCalls, handed, dbMessages,
                   dbAtStart, nextId, storeVars, restVars, rwVars>>

\* the retrieval run starts: it checks the entry condition and the text, and
\* either calls generateEmbedding or ends without retrieving
RetrieveEntry ==
    /\ pc = "retrieve"
    /\ retrievalInput' = uiMessages
    /\ IF EntryCondition(message, userId, isToolApprovalFlow)
          /\ QueryToEmbed(message) # <<>>
       THEN /\ embedCalls' = Append(embedCalls, QueryToEmbed(message))
            /\ pc' = "embedding"
       ELSE /\ embedCalls' = embedCalls
            /\ pc' = "generate"
    /\ UNCHANGED <<variant, message, isToolApprovalFlow, userId, uiMessages,
                   fileIdx, retrievedDocuments, highQualityDocs, caught,
                   embedOk, searchCalls, searchOk, searchResults, rewriteCalls, handed,
                   dbMessages, dbAtStart, nextId, storeVars, restVars, rwVars>>

\* generateEmbedding returns a vector (ok) or throws; on a vector the search
\* is issued
EmbedReturn(ok) ==
    /\ pc = "embedding"
    /\ IF ok
       THEN /\ embedOk' = TRUE
            /\ searchCalls' =
                   Append(searchCalls,
                          SearchArgs(variant, userId,
                                     embedCalls[Len(embedCalls)]))
            /\ pc' = "searching"
            /\ caught' = caught
       ELSE /\ embedOk' = embedOk
            /\ searchCalls' = searchCalls
            /\ caught' = RetrievalCatches("embedding")
            /\ pc' = IF RetrievalCatches("embedding") THEN "generate"
                     ELSE "error"
    /\ UNCHANGED <<variant, message, isToolApprovalFlow, userId, uiMessages,
                   fileIdx, retrievalInput, retrievedDocuments,
                   highQualityDocs, embedCalls, searchOk, searchResults, rewriteCalls,
                   handed, dbMessages, dbAtStart, nextId, storeVars, restVars, rwVars>>

\* searchSimilarDocuments returns its rows (ok) or throws; the rows are
\* mapped, filtered and sorted, and if any survive the context message is
\* built (which may throw: built = FALSE) and inserted before the last message
SearchReturn(ok, built) ==
    /\ pc = "searching"
    /\ IF ok
       THEN LET results ==
                    searchSimilarDocuments(searchCalls[Len(searchCalls)],
                                           embeddingRows)
                docs == MapResults(variant, results)
                hq == IF Len(docs) > 0 THEN HighQualityDocs(variant, docs)
                      ELSE <<>>
                documentsMessage ==
                    Msg(nextId, ContextRole(variant), "context", <<>>, hq, "")
            IN /\ searchOk' = TRUE
               /\ searchResults' = results
               /\ retrievedDocuments' = docs
               /\ highQualityDocs' = hq
               /\ IF ShouldInject(hq)
                  THEN IF built
                       THEN /\ uiMessages' =
                                   InsertBeforeLast(uiMessages,
                                                    documentsMessage)
                            /\ nextId' = nextId + 1
                            /\ caught' = caught
                            /\ pc' = "generate"
                       ELSE /\ uiMessages' = uiMessages
                            /\ nextId' = nextId
                            /\ caught' = RetrievalCatches("build")
                            /\ pc' = IF RetrievalCatches("build")
                                     THEN "generate" ELSE "error"
                  ELSE /\ uiMessages' = uiMessages
                       /\ nextId' = nextId
                       /\ caught' = caught
                       /\ pc' = "generate"
       ELSE /\ caught' = RetrievalCatches("search")
            /\ pc' = IF RetrievalCatches("search") THEN "generate"
                     ELSE "error"
            /\ UNCHANGED <<searchOk, searchResults, retrievedDocuments,
                           highQualityDocs, uiMessages, nextId>>
    /\ UNCHANGED <<variant, message, isToolApprovalFlow, userId, fileIdx,
                   retrievalInput, embedCalls, embedOk, searchCalls,
                   rewriteCalls, handed, dbMessages, dbAtStart, storeVars, restVars,
                   rwVars>>

\* convertToModelMessages(uiMessages): the sequence is handed to generation
Generate ==
    /\ pc = "generate"
    /\ handed' = uiMessages
    /\ pc' = "streaming"
    /\ UNCHANGED <<variant, message, isToolApprovalFlow, userId, uiMessages,
                   fileIdx, retrievalInput, retrievedDocuments,
                   highQualityDocs, caught, embedCalls, embedOk, searchCalls,
                   searchOk, searchResults, rewriteCalls, dbMessages, dbAtStart,
                   nextId, storeVars, restVars, rwVars>>

FinishedMessagesAll(tool, ui, resp) == Append(ui, resp)

\* the messages the stream reports to onFinish: with originalMessages (tool
\* approval) the originals followed by the response, or with the response
\* merged into a trailing assistant message; otherwise the response alone
FinishedMessages(tool, ui, resp) ==
    IF tool
    THEN (IF Len(ui) > 0 /\ ui[Len(ui)].role = "assistant"
          THEN [ui EXCEPT ![Len(ui)].text = resp.text]
          ELSE Append(ui, resp))
    ELSE <<resp>>

\* updateMessage({id, parts})
UpdateMessage(db, m) ==
    [k \in 1..Len(db) |->
        IF db[k].id = m.id THEN [db[k] EXCEPT !.text = m.text] ELSE db[k]]

RECURSIVE ApprovalLoop(_, _, _)
\* the loop of onFinish in a tool-approval flow
ApprovalLoop(db, ui, finished) ==
    IF finished = <<>> THEN db
    ELSE LET finishedMsg == Head(finished)
         IN IF FindIndex(ui, finishedMsg.id) # 0
            THEN ApprovalLoop(UpdateMessage(db, finishedMsg), ui,
                              Tail(finished))
            ELSE ApprovalLoop(Append(db, finishedMsg), ui, Tail(finished))

\* onFinish: the Message table after the finished messages are stored
OnFinish(db, tool, ui, finished) ==
    IF tool THEN ApprovalLoop(db, ui, finished)
    ELSE IF Len(finished) > 0 THEN db \o finished ELSE db

\* the model's stream ends and onFinish stores the generated messages
Finish ==
    /\ pc = "streaming"
    /\ LET resp == Msg(nextId, "assistant", "response", <<"r">>, <<>>, "")
           finishedMessages ==
               FinishedMessages(isToolApprovalFlow, uiMessages, resp)
       IN dbMessages' = OnFinish(dbMessages, isToolApprovalFlow, uiMessages,
                                 finishedMessages)
    /\ nextId' = nextId + 1
    /\ pc' = "done"
    /\ UNCHANGED <<variant, message, isToolApprovalFlow, userId, uiMessages,
                   fileIdx, retrievalInput, retrievedDocuments,
                   highQualityDocs, caught, embedCalls, embedOk, searchCalls,
                   searchOk, searchResults, rewriteCalls, handed, dbAtStart, storeVars, restVars,
                   rwVars>>

\* a chat with the given stored messages and embedding rows, before a request
ChatInitWith(db, rows) ==
    /\ variant = "route"
    /\ pc = "start"
    /\ message = NoMessage
    /\ isToolApprovalFlow = FALSE
    /\ userId = NoUser
    /\ uiMessages = <<>>
    /\ fileIdx = 1
    /\ retrievalInput = <<>>
    /\ retrievedDocuments = <<>>
    /\ highQualityDocs = <<>>
    /\ caught = FALSE
    /\ embedCalls = <<>>
    /\ embedOk = FALSE
    /\ searchCalls = <<>>
    /\ searchOk = FALSE
    /\ searchResults = <<>>
    /\ rewriteCalls = 0
    /\ handed = <<>>
    /\ dbMessages = db
    /\ dbAtStart = db
    /\ nextId = FirstFreshId
    /\ embeddingRows = rows

ChatInit ==
    \E db \in InitialDbs, rows \in RowStores : ChatInitWith(db, rows)

ChatNext ==
    \/ /\ pc = "start"
       /\ \E v \in {"route", "ctx"}, msg \in RequestMessages,
             tool \in BOOLEAN, uid \in Users \cup {NoUser},
             clientMsgs \in ClientMessages :
             StartTurn(v, msg, tool, uid, clientMsgs)
    \/ \E cached \in BOOLEAN : AttachFile(cached)
    \/ AttachDone
    \/ RetrieveEntry
    \/ \E ok \in BOOLEAN : EmbedReturn(ok)
    \/ \E ok \in BOOLEAN, built \in BOOLEAN : SearchReturn(ok, built)
    \/ Generate
    \/ Finish

Init == ChatInit /\ RwInit /\ RestInit
Next == ChatNext
Spec == Init /\ [][Next]_vars

\* the steps of a retrieval run and the hand-over to generation
RetrievalStep ==
    \/ RetrieveEntry
    \/ \E ok \in BOOLEAN : EmbedReturn(ok)
    \/ \E ok \in BOOLEAN, built \in BOOLEAN : SearchReturn(ok, built)
    \/ Generate

\* a started retrieval run is carried on: each remote call returns or fails,
\* and the handler takes its next step
LiveSpec == Spec /\ WF_vars(RetrievalStep)

\* calls of rewriteQuery on their own
InitRewrite == RwInit /\ ChatInitWith(<<>>, {}) /\ RestInit
SpecRewrite == InitRewrite /\ [][RwNext]_vars

\* indexing runs, overlapping and one after another
InitIndex == RestInit /\ RwInit /\ ChatInitWith(<<>>, {})
SpecIndex == InitIndex /\ [][IxNext]_vars
SpecIndexSeq == InitIndex /\ [][IxNextSeq]_vars

\* calls of extractTextFromFile on their own
InitExtract == RestInit /\ RwInit /\ ChatInitWith(<<>>, {})
SpecExtract == InitExtract /\ [][ExNext]_vars

\* one upload request
InitUpload == RestInit /\ RwInit /\ ChatInitWith(<<>>, {})
SpecUpload == InitUpload /\ [][UpNext]_vars

\* calls of generateEmbeddings on their own
InitEmbed == RestInit /\ RwInit /\ ChatInitWith(<<>>, {})
SpecEmbed == InitEmbed /\ [][EmNext]_vars

\* concurrent cache operations
InitCache == RestInit /\ RwInit /\ ChatInitWith(<<>>, {})
SpecCache == InitCache /\ [][RcNext]_vars

\* cleanTextForEmbedding applied to any text, and to its result
InitClean ==
    /\ OtherInit /\ CkInit /\ DdInit /\ RwInit /\ ChatInitWith(<<>>, {})
    /\ \E text \in CleanTexts : ClInitWith(text)
SpecClean == InitClean /\ [][ClNext]_vars

\* chunkText on any text with any pieces from the splitter
InitChunk ==
    /\ OtherInit /\ ClInit /\ DdInit /\ RwInit /\ ChatInitWith(<<>>, {})
    /\ \E text \in ChunkTexts, textChunks \in PieceLists :
          CkInitWith(text, textChunks)
SpecChunk == InitChunk /\ [][CkNext]_vars

\* the duplicate filter on any chunk list
InitDedup ==
    /\ OtherInit /\ ClInit /\ CkInit /\ RwInit /\ ChatInitWith(<<>>, {})
    /\ \E chunks \in ChunkLists : DdInitWith(chunks)
SpecDedup == InitDedup /\ [][DdNext]_vars

\* extraction calls running at the same time
InitTemp == RestInit /\ RwInit /\ ChatInitWith(<<>>, {})
SpecTemp == InitTemp /\ [][TxNext]_vars

\* one response stream of the custom streaming chat handler
InitStream == RestInit /\ RwInit /\ ChatInitWith(<<>>, {})
SpecStream == InitStream /\ [][StNext]_vars

(***************************************************************************)
(* Properties of the retrieval run and the chat turn                       *)
(***************************************************************************)
RetrievalOver == pc \in {"generate", "streaming", "done"}

\* the turn has handed its messages to generation
Handed == pc \in {"streaming", "done"}

\* positions of the context messages in a sequence
ContextPositions(msgs) == {k \in 1..Len(msgs) : msgs[k].kind = "context"}

\* a sequence without its k-th element
Without(msgs, k) == SubSeq(msgs, 1, k - 1) \o SubSeq(msgs, k + 1, Len(msgs))

\* what identifies a chunk: its document, its index and its similarity
ChunkOf(doc) == <<doc.documentId, doc.chunkIndex, doc.similarity>>
ChunksOf(docs) == [k \in 1..Len(docs) |-> ChunkOf(docs[k])]

\* C1: if a step of the retrieval run fails (embedding, search or building
\* the context message), the run returns with the message sequence equal to
\* its input and with zero retrieved documents.
C1_FailedRunReturnsInputAndNoDocuments ==
    (RetrievalOver /\ caught) =>
        (uiMessages = retrievalInput /\ retrievedDocuments = <<>>)

\* C2: rewriteQuery never throws, and without an API key or on any failed
\* upstream outcome it returns the original query as originalQuery and as
\* rewrittenQuery, success = false and an error text.
C2_RewriteFailsOpen ==
    /\ ~rwThrew
    /\ (rwPc = "done" /\ (~rwArgs.apiKey \/ rwOutcome.kind # "content")) =>
           /\ rwResult.originalQuery = rwArgs.currentQuery
           /\ rwResult.rewrittenQuery = rwArgs.currentQuery
           /\ rwResult.success = FALSE
           /\ rwResult.error # ""

\* a call that got a reply without message content has returned
C2_Witness ==
    /\ rwPc = "done"
    /\ rwArgs.apiKey
    /\ rwOutcome.kind = "no_content"
    /\ rwResult.success = FALSE

RunInjected == ContextPositions(uiMessages) # {}
RunFailedSoft == caught /\ ~RunInjected
RunSkipped == ~caught /\ ~RunInjected

\* C3: every retrieval run eventually ends, in exactly one of Injected,
\* Skipped and Failed-soft, and the turn then hands its messages to
\* generation; a search is issued only after the embedding succeeded and a
\* context message is injected only after a search returned.
C3_RunEndsAndTurnProceeds ==
    /\ (pc \in {"retrieve", "embedding", "searching"}) ~> Handed
    /\ [](Handed =>
             /\ RunInjected \/ caught \/ RunSkipped
             /\ ~(RunInjected /\ caught))
    /\ [](searchCalls # <<>> => embedOk)
    /\ [](RunInjected => searchOk)

\* a run whose search failed was caught and the turn reached generation
C3_Witness ==
    /\ pc = "done"
    /\ searchCalls # <<>>
    /\ ~searchOk
    /\ RunFailedSoft
    /\ Handed

\* C4: when a document survives filtering (and building the message did not
\* fail), the sequence handed to generation holds exactly one context
\* message, immediately before the triggering user message, and the other
\* messages are the run's input in their order.
C4_ContextRightBeforeUserMessage ==
    (Handed /\ highQualityDocs # <<>> /\ ~caught) =>
        \E k \in 1..(Len(handed) - 1) :
            /\ ContextPositions(handed) = {k}
            /\ handed[k + 1].id = message.id
            /\ Without(handed, k) = retrievalInput

\* C5: the injected context message lists exactly the chunks the search
\* returned whose similarity is at least 0.6, in descending order.
C5_InjectedAreAtOrAboveFloor ==
    \A k \in ContextPositions(uiMessages) :
        ChunksOf(uiMessages[k].docs) =
            ChunksOf(SortDescending(SelectSeq(searchResults,
                LAMBDA r: r.similarity >= RouteQualityFloor)))

\* C6: a run whose message is absent or not user-authored, or without a user
\* id, or in a tool-approval continuation, or whose text is empty after
\* cleaning, issues no rewrite, embedding or search call.
C6_NoCallsOutsideEntryCondition ==
    (/\ pc # "start"
     /\ \/ message = NoMessage
        \/ userId = NoUser
        \/ isToolApprovalFlow
        \/ message.role # "user"
        \/ cleanQueryText(message.text) = <<>>) =>
        (rewriteCalls = 0 /\ embedCalls = <<>> /\ searchCalls = <<>>)

\* an authenticated fresh turn whose text is a zero-width character ended
\* without any call
C6_Witness ==
    /\ pc = "done"
    /\ message # NoMessage
    /\ message.text = <<"ZW">>
    /\ userId # NoUser
    /\ ~isToolApprovalFlow
    /\ embedCalls = <<>>
    /\ searchCalls = <<>>

\* C7: when no document survives filtering, no message is inserted: the
\* sequence the run returns, and the one handed to generation, is its input.
C7_NothingSurvivesNothingInserted ==
    (RetrievalOver /\ highQualityDocs = <<>>) =>
        /\ uiMessages = retrievalInput
        /\ Handed => handed = retrievalInput

\* the search returned rows, all of them below the floor of the filter
C7_Witness ==
    /\ pc = "done"
    /\ searchOk
    /\ searchResults # <<>>
    /\ highQualityDocs = <<>>
    /\ handed = retrievalInput

\* C8: on a run that passes the entry condition the rewriter is called
\* before any embedding call.
C8_RewriteBeforeEmbedding == embedCalls # <<>> => rewriteCalls > 0

\* C9: every search is issued with the requesting user's id, and every
\* retrieved document and every document of an injected context message
\* belongs to a document that user owns.
C9_RetrievalScopedToUser ==
    /\ \A k \in 1..Len(searchCalls) : searchCalls[k].userId = userId
    /\ \A k \in 1..Len(retrievedDocuments) :
           DocumentOwner(retrievedDocuments[k].documentId) = userId
    /\ \A k \in ContextPositions(uiMessages) :
           \A j \in 1..Len(uiMessages[k].docs) :
               DocumentOwner(uiMessages[k].docs[j].documentId) = userId

\* user u2 got a context message while user u1 has rows too
C9_Witness ==
    /\ pc = "done"
    /\ userId = "u2"
    /\ RunInjected
    /\ \E r \in embeddingRows : DocumentOwner(r.documentId) = "u1"

Synthetic == {"context", "file", "expired"}

\* C10: no synthetic message is ever persisted, and after a turn the
\* Message table has gained only the user's message and the response.
C10_SyntheticNeverPersisted ==
    /\ \A k \in 1..Len(dbMessages) : dbMessages[k].kind \notin Synthetic
    /\ pc = "done" =>
           \A k \in 1..Len(dbMessages) :
               \/ \E j \in 1..Len(dbAtStart) :
                      dbAtStart[j].id = dbMessages[k].id
               \/ message # NoMessage /\ dbMessages[k].id = message.id
               \/ dbMessages[k].kind = "response"

\* a turn whose handed sequence held a context message and an attachment
\* message ended with two more persisted messages
C10_Witness ==
    /\ pc = "done"
    /\ \E k \in 1..Len(handed) : handed[k].kind = "context"
    /\ \E k \in 1..Len(handed) : handed[k].kind \in {"file", "expired"}
    /\ Len(dbMessages) = Len(dbAtStart) + 2

(***************************************************************************)
(* Properties of indexing                                                  *)
(***************************************************************************)
\* chunk index and content of a set of rows
IndexAndContent(rows) == {<<r.chunkIndex, r.content>> : r \in rows}

\* the chunk indexes and contents a successful run stores for a content
IndexedContent(content) ==
    LET cleanedChunks == CleanedChunks(UniqueChunks(chunkText(content)))
    IN {<<k - 1, cleanedChunks[k]>> : k \in 1..Len(cleanedChunks)}

\* C11 as stated: after completed, non-overlapping indexing runs the rows of
\* a document are exactly the rows its last run wrote, whether that run
\* succeeded or failed; after a successful run they are a function of the
\* document's content alone.
C11_RowsAreThoseOfLastRun ==
    \A d \in IndexedDocs :
        (IxAlone /\ ixLast[d].run # 0) =>
            /\ RowsOf(ixStore, d) = ixLast[d].wrote
            /\ ixLast[d].result = "success" =>
                   IndexAndContent(RowsOf(ixStore, d)) =
                       IndexedContent(ixLast[d].content)

\* C11 amended: the rows of a document are exactly the rows its last run
\* wrote if that run's delete step succeeded, and the rows stored before the
\* run if it failed at its delete step; after a successful run they are a
\* function of the document's content alone.
C11_RowsAreThoseOfLastDeletingRun ==
    \A d \in IndexedDocs :
        (IxAlone /\ ixLast[d].run # 0) =>
            /\ RowsOf(ixStore, d) = IF ixLast[d].deleted THEN ixLast[d].wrote
                                    ELSE ixLast[d].before
            /\ ixLast[d].result = "success" =>
                   IndexAndContent(RowsOf(ixStore, d)) =
                       IndexedContent(ixLast[d].content)

\* a document indexed with three chunks was indexed again with one
C11_Witness ==
    /\ IxAlone
    /\ ixLast["d1"].result = "success"
    /\ ixLast["d1"].deleted
    /\ Cardinality(ixLast["d1"].before) = 3
    /\ Cardinality(ixLast["d1"].wrote) = 1
    /\ RowsOf(ixStore, "d2") # {}

\* C12: in every reachable state of the embedding store, under any
\* interleaving of indexing requests, no two rows have the same documentId
\* and the same chunkIndex.
C12_ChunkIndexUniquePerDocument ==
    \A r1 \in ixStore, r2 \in ixStore :
        (r1.documentId = r2.documentId /\ r1.chunkIndex = r2.chunkIndex) =>
            r1 = r2


(***************************************************************************)
(* Properties of text extraction                                           *)
(***************************************************************************)
\* C15: when a call of extractTextFromFile has returned or thrown, its
\* temporary file is gone unless the unlink itself failed, and a failed
\* unlink leaves the outcome of the call what the try block made it.
C15_TempFileRemoved ==
    exPc = "done" =>
        /\ (exUnlink = "ok" => ~exTemp)
        /\ (exTemp => exUnlink = "failed")
        /\ exResult = exBody

\* a call whose unlink failed and that still returned the extracted text
C15_Witness ==
    /\ exPc = "done"
    /\ exUnlink = "failed"
    /\ exTemp
    /\ exResult.kind = "text"

\* the declared MIME type or the extension names PDF, plain text or Markdown
IdentifiesSupported(mimeType, ext) ==
    \/ mimeType \in {Pdf, Plain, Markdown}
    \/ ext \in {".pdf", ".txt", ".md"}

\* C16: a call whose file was written fails with the unsupported-type error
\* exactly when neither the MIME type nor the extension names PDF, plain
\* text or Markdown.
C16_UnsupportedIffUnidentified ==
    (exPc = "done" /\ exBody.kind # "write_error") =>
        (exBody.kind = "unsupported"
            <=> ~IdentifiesSupported(exArgs.mimeType, exArgs.ext))


(***************************************************************************)
(* Properties of the upload route                                          *)
(***************************************************************************)
\* C13: when an indexing step (delete, chunk, embed or save) has failed
\* after the Document was saved, the upload answers success with a warning
\* and chunksIndexed = 0, and the Document stays saved.
C13_IndexingFailureIsPartialSuccess ==
    (upPc = "done" /\ upFailed # "none") =>
        /\ upResponse.status = 200
        /\ upResponse.success
        /\ upResponse.warning
        /\ upResponse.chunksIndexed = 0
        /\ upDoc

\* the last indexing step failed after the delete went through
C13_Witness ==
    /\ upPc = "done"
    /\ upFailed = "save"
    /\ upDoc
    /\ upResponse.success
    /\ upResponse.warning

\* the I/O side effects of the request that outlive or precede the answer
NoStoredEffect == ~upBlob /\ ~upDoc /\ ~upRowsTouched

\* the request's file is oversize or of no supported type, or its extracted
\* text is empty
InvalidUpload ==
    \/ upFile.oversize
    \/ ~IsValidType(MimeTypeOf(upFile.type), upFile.ext)
    \/ (exPc = "done" /\ exResult.kind = "text"
           /\ Len(Trim(exResult.text)) = 0)

\* C14 as stated: an upload rejected for a validation error (oversize,
\* unsupported type, empty extracted text) has written no temporary file,
\* uploaded no blob, saved no Document and touched no embedding row.
C14_RejectedBeforeAnyIO ==
    (upPc = "done" /\ upResponse.error \in {"size", "type", "empty"}) =>
        ~exWritten /\ NoStoredEffect

\* C14 amended: such a rejection has uploaded no blob, saved no Document and
\* touched no embedding row; a rejection for size or type has written no
\* temporary file either, a rejection for empty text comes after the
\* extraction call has finished.
C14_RejectedBeforeStoredEffects ==
    /\ (upPc = "done" /\ upResponse.error \in {"size", "type", "empty"}) =>
           /\ upResponse.status = 400
           /\ NoStoredEffect
           /\ (upResponse.error \in {"size", "type"} => ~exWritten)
           /\ (upResponse.error = "empty" => exPc = "done")
    /\ (upPc # "idle" /\ InvalidUpload) => NoStoredEffect

\* a rejection for empty text after the temporary file was written
C14_Witness ==
    /\ upPc = "done"
    /\ upResponse.error = "empty"
    /\ exWritten
    /\ NoStoredEffect


(***************************************************************************)
(* Properties of batch embedding                                           *)
(***************************************************************************)
RECURSIVE InputsFrom(_, _)
\* the inputs of the calls from the k-th on, one after another
InputsFrom(calls, k) ==
    IF k > Len(calls) THEN <<>>
    ELSE calls[k].input \o InputsFrom(calls, k + 1)

\* every upstream call made so far has succeeded
AllCallsOk == \A k \in 1..Len(emCalls) : emCalls[k].outcome = "ok"

\* C17: a call of generateEmbeddings with n texts (and an API key) whose
\* upstream calls all succeed makes exactly ceil(n / 64) calls, each with at
\* most 64 texts, in input order, and returns the n vectors in input order.
C17_BatchesOfSixtyFour ==
    (emPc = "done" /\ emResult.error # "api_key" /\ AllCallsOk) =>
        /\ emResult.kind = "returned"
        /\ Len(emCalls) = (Len(emTexts) + 63) \div 64
        /\ \A k \in 1..Len(emCalls) :
              Len(emCalls[k].input) \in 1..64
        /\ InputsFrom(emCalls, 1) = emTexts
        /\ Len(emResult.vectors) = Len(emTexts)
        /\ \A k \in 1..Len(emTexts) :
              emResult.vectors[k] = VectorOf(emTexts[k])

\* 130 texts embedded with three calls
C17_Witness ==
    /\ emPc = "done"
    /\ Len(emTexts) = 130
    /\ emResult.kind = "returned"
    /\ Len(emCalls) = 3
    /\ Len(emResult.vectors) = 130

\* C18: when the upstream call for a window fails, generateEmbeddings fails
\* as a whole: that call is the last one, nothing is returned, and no window
\* is called twice.
C18_FailedWindowFailsCall ==
    /\ \A k \in 1..Len(emCalls) :
          emCalls[k].outcome # "ok" =>
              /\ k = Len(emCalls)
              /\ emPc = "done"
              /\ emResult = EmThrown(emCalls[k].outcome)
    /\ \A j, k \in 1..Len(emCalls) : j < k => emCalls[j].i < emCalls[k].i

\* the second window failed after the first succeeded
C18_Witness ==
    /\ emPc = "done"
    /\ Len(emCalls) = 2
    /\ emCalls[1].outcome = "ok"
    /\ emCalls[2].outcome = "no_data"
    /\ Len(emTexts) > 128
    /\ emResult.kind = "thrown"
    /\ emResult.vectors = <<>>


(***************************************************************************)
(* Properties of the rewrite's validation and prompt history               *)
(***************************************************************************)
\* C19: for a received reply, a trimmed text that is empty or longer than
\* five times the current query gives success = false with the current query
\* as rewrittenQuery; any other gives success = true with the trimmed text
\* (a text of exactly five times the length is accepted).
C19_ReplyValidation ==
    (rwPc = "done" /\ rwOutcome # NoResult /\ rwOutcome.kind = "content") =>
        LET text == Trim(rwOutcome.text)
            q == rwArgs.currentQuery
        IN IF Len(text) = 0 \/ Len(text) > 5 * Len(q)
           THEN /\ rwResult.success = FALSE
                /\ rwResult.rewrittenQuery = q
           ELSE /\ rwResult.success = TRUE
                /\ rwResult.rewrittenQuery = text

\* a reply of exactly five times the query's length is accepted
C19_Witness ==
    /\ rwPc = "done"
    /\ rwOutcome # NoResult
    /\ rwOutcome.kind = "content"
    /\ Len(rwArgs.currentQuery) > 0
    /\ Len(Trim(rwOutcome.text)) = 5 * Len(rwArgs.currentQuery)
    /\ rwResult.success = TRUE
    /\ rwResult.rewrittenQuery = Trim(rwOutcome.text)

\* the last k entries of a history
LastEntries(h, k) ==
    SubSeq(h, (IF Len(h) > k THEN Len(h) - k ELSE 0) + 1, Len(h))

\* C20: the history entries in the prompt are exactly the user and assistant
\* entries with non-empty text among the last 2 * maxHistoryMessages entries,
\* in order, and never more than 2 * maxHistoryMessages of them.
C20_PromptHistoryWindow ==
    (rwPc \in {"fetching", "done"} /\ rwArgs.apiKey) =>
        LET m == rwArgs.maxHistoryMessages
            last == LastEntries(rwArgs.conversationHistory, 2 * m)
        IN /\ rwRecentHistory =
                 SelectSeq(last,
                           LAMBDA msg: /\ msg.role \in {"user", "assistant"}
                                       /\ Len(Trim(msg.text)) > 0)
           /\ Len(rwRecentHistory) <= 2 * m


(***************************************************************************)
(* Properties of the cache client                                          *)
(***************************************************************************)
\* C21: under any interleaving of cache operations the client is created at
\* most once, and connect is only ever called on a client that is closed
\* and has no connect in progress.
C21_ClientCreatedOnce ==
    /\ rcCreations <= 1
    /\ ~rcBadConnect

\* one caller still awaits the first connect while another has been handed
\* the same client
C21_Witness ==
    /\ rcCreations = 1
    /\ rcClient = "connecting"
    /\ \E c, d \in CacheCallers :
          /\ rcCalls[c] = "connect_new"
          /\ rcCalls[d] = "returned"


(***************************************************************************)
(* Properties of text cleaning                                             *)
(***************************************************************************)
\* C22: cleaning an already cleaned text changes nothing.
C22_CleanIsIdempotent ==
    clPc = "twice" => clTwice = clOnce


(***************************************************************************)
(* Properties of chunkText                                                 *)
(***************************************************************************)
\* C23: every chunk produced has startIndex < endIndex, and every chunk
\* starts at or after the end of the chunk before it (so start indices never
\* decrease and ranges never overlap), whether the piece was found in the
\* text or not.
C23_ChunkRangesOrdered ==
    /\ \A k \in 1..Len(ckChunks) :
          ckChunks[k].startIndex < ckChunks[k].endIndex
    /\ \A k \in 2..Len(ckChunks) :
          /\ ckChunks[k - 1].startIndex <= ckChunks[k].startIndex
          /\ ckChunks[k - 1].endIndex <= ckChunks[k].startIndex

\* the chunk's text stands in the text at the chunk's range
StandsAt(chunk) ==
    /\ chunk.endIndex <= Len(ckText)
    /\ SubSeq(ckText, chunk.startIndex + 1, chunk.endIndex) = chunk.text

\* all pieces handled and three chunks made: the first found in the text,
\* the second placed by the fallback
C23_Witness ==
    /\ ckNext > Len(ckPieces)
    /\ Len(ckChunks) = 3
    /\ StandsAt(ckChunks[1])
    /\ ~StandsAt(ckChunks[2])


(***************************************************************************)
(* Properties of deduplication                                             *)
(***************************************************************************)
\* the position in chunks of the first chunk whose trimmed text is that of c
FirstWithTextOf(chunks, c) ==
    CHOOSE k \in 1..Len(chunks) :
        /\ Trim(chunks[k]) = Trim(c)
        /\ \A j \in 1..(k - 1) : Trim(chunks[j]) # Trim(c)

\* C24: deduplication keeps, for each distinct trimmed text, exactly one
\* chunk, which is the first chunk with that trimmed text, and the kept
\* chunks stand in their original order.
C24_DedupKeepsFirst ==
    ddPc = "done" =>
        /\ \A k \in 1..Len(ddChunks) :
              Cardinality({u \in 1..Len(ddUnique) :
                              Trim(ddUnique[u]) = Trim(ddChunks[k])}) = 1
        /\ \A u \in 1..Len(ddUnique) :
              /\ \E k \in 1..Len(ddChunks) :
                    Trim(ddChunks[k]) = Trim(ddUnique[u])
              /\ ddUnique[u] = ddChunks[FirstWithTextOf(ddChunks, ddUnique[u])]
        /\ \A u, v \in 1..Len(ddUnique) :
              u < v => FirstWithTextOf(ddChunks, ddUnique[u])
                          < FirstWithTextOf(ddChunks, ddUnique[v])

\* two chunks that differ only in surrounding blanks, a different chunk
\* between them: the later twin is dropped
C24_Witness ==
    /\ ddPc = "done"
    /\ ddChunks = <<<<"a", " ">>, <<"b">>, <<"a">>, <<"b">>>>
    /\ ddUnique = <<<<"a", " ">>, <<"b">>>>


(***************************************************************************)
(* Properties of the rows of one indexing run                              *)
(***************************************************************************)
\* C25: the rows persisted by a successful indexing run with n surviving
\* chunks carry the chunkIndex values 0..n-1 in chunk order, row i holds the
\* cleaned content of chunk i and the vector computed from that content, and
\* no row is persisted without a vector.
C25_RowsMatchChunks ==
    /\ \A p \in Requests :
          (ixProc[p].pc = "done" /\ ixProc[p].result = "success") =>
              LET n == Len(ixProc[p].cleaned)
                  rows == ixProc[p].wrote
              IN /\ Cardinality(rows) = n
                 /\ {r.chunkIndex : r \in rows} = 0..(n - 1)
                 /\ ixProc[p].cleaned =
                       CleanedChunks(UniqueChunks(chunkText(
                           ixProc[p].content)))
                 /\ \A r \in rows :
                       /\ r.content = ixProc[p].cleaned[r.chunkIndex + 1]
                       /\ r.embedding = VectorOf(r.content)
    /\ \A r \in ixStore : r.embedding # NoVector

\* a successful run that persisted three rows
C25_Witness ==
    \E p \in Requests :
        /\ ixProc[p].pc = "done"
        /\ ixProc[p].result = "success"
        /\ Cardinality(ixProc[p].wrote) = 3
        /\ ixProc[p].wrote \subseteq ixStore


(***************************************************************************)
(* Properties of concurrent extraction calls                               *)
(***************************************************************************)
\* C26: no extraction call overwrites, reads or deletes the temporary file
\* written by another call.
C26_TempFilePrivate == ~txInterfered


(***************************************************************************)
(* Properties of the search floor and the display floor                    *)
(***************************************************************************)
\* the cleaned queries a turn can search with
CleanedQueries == {CleanedQueryTable[t] : t \in QueryTexts}

\* C27: the similarity floor of every search is no higher than the quality
\* floor of the filter that follows it, and a shorter cleaned query never
\* gets a higher search floor than a longer one.
C27_SearchFloorBelowDisplayFloor ==
    /\ \A k \in 1..Len(searchCalls) :
          searchCalls[k].similarityThreshold <= QualityFloor(variant)
    /\ \A v \in {"route", "ctx"}, q1 \in CleanedQueries,
          q2 \in CleanedQueries :
          Len(q1) <= Len(q2)
              => DynamicThreshold(v, q1) <= DynamicThreshold(v, q2)


(***************************************************************************)
(* Properties of the stored contents                                       *)
(***************************************************************************)
\* C28: after a successful indexing run the rows persisted for the document
\* have pairwise distinct contents.
C28_StoredContentsDistinct ==
    \A p \in Requests :
        (ixProc[p].pc = "done" /\ ixProc[p].result = "success") =>
            \A r1, r2 \in ixProc[p].wrote :
                r1.content = r2.content => r1 = r2


(***************************************************************************)
(* Properties of the custom streaming chat handler                         *)
(***************************************************************************)
\* the finalMessage has a text part whose text is text
HasTextPart(finalMessage, text) ==
    \E k \in 1..Len(finalMessage.parts) :
        /\ finalMessage.parts[k].type = "text"
        /\ finalMessage.parts[k].text = text

\* C29: whenever at least one text delta was received, the final
\* non-transient finalMessage sent to the client and the finalMessage saved to the
\* database contain a text part equal to all text deltas received, one after
\* another.
C29_FinalMessageHasAllText ==
    stReceived # <<>> =>
        /\ stSent # NoMsg => HasTextPart(stSent, stReceived)
        /\ stSaved # NoMsg => HasTextPart(stSaved, stReceived)

\* C30: controller.enqueue is never called after controller.close().
C30_NoEnqueueAfterClose == ~stLateEnqueue

====
